---------------------------- MODULE Spec2Model ----------------------------
(***************************************************************************)
(* Adaptive Interview Engine of the Pebble Decision Coach (src/app.py).   *)
(*                                                                         *)
(* The session is the st.session_state of one browser session.  Every     *)
(* script run of the questions page is one action: a plain render         *)
(* (ensure_question), a submit of the answer form, or a press of the back *)
(* button.  st.rerun() ends the script run it is called in.               *)
(*                                                                         *)
(* Text is modelled character by character: a text is a sequence of       *)
(* one-character names.  The module is ASCII, so a Hangul syllable is     *)
(* named by its romanised jamo (initial, vowel, final; the silent initial *)
(* is "x"), e.g. "mo","reu","gess" for the three characters of the        *)
(* confusion keyword of src/app.py:174.  "lq"/"rq" are the curly quotes,  *)
(* "arrow" the arrow, "jn" the bare jamo nieun.  ASCII characters are     *)
(* themselves.                                                             *)
(***************************************************************************)
EXTENDS Integers, Sequences, FiniteSets, TLC

-----------------------------------------------------------------------------
(* Bounds of the model *)

\* largest number of main questions a session is started with (slider 2..10)
MaxN == 3

\* longest answers list explored (the last slot can be re-answered forever)
MaxAnswers == 5

\* largest number of main questions of the long sessions (slider 2..10)
MaxSeqN == 7
\* the size bound of the Summary Buffer, in characters (scaled down so that
\* a few answers overflow it)
MaxSummaryChars == 30
\* the update cadence K of the Summary Buffer (scaled down so that a session
\* of MaxAnswers records folds twice)
SummaryCadence == 2

-----------------------------------------------------------------------------
(* Text helpers: Python str.strip, re.sub(r"\s+", " ", s), re.search *)

IsSpace(c) == c \in {" ", "\n", "\t"}

RECURSIVE lstrip(_)
lstrip(s) ==
    IF s # <<>> /\ IsSpace(Head(s)) THEN lstrip(Tail(s)) ELSE s

RECURSIVE rstrip(_)
rstrip(s) ==
    IF s # <<>> /\ IsSpace(s[Len(s)]) THEN rstrip(SubSeq(s, 1, Len(s) - 1)) ELSE s

strip(s) == rstrip(lstrip(s))

\* re.sub(r"\s+", " ", s): every run of whitespace becomes one space
RECURSIVE collapse(_)
collapse(s) ==
    IF s = <<>> THEN <<>>
    ELSE IF IsSpace(Head(s)) THEN <<" ">> \o collapse(lstrip(s))
    ELSE <<Head(s)>> \o collapse(Tail(s))

\* item of a pattern that stands for \s*
WS == "\\s*"

\* Position after the match of the pattern items p at position i of s, or 0
\* when p does not match there.  \s* is greedy; every \s* of the source's
\* patterns is followed by a non-space literal, so greedy is the only match.
RECURSIVE MatchEnd(_, _, _)
MatchEnd(s, i, p) ==
    IF p = <<>> THEN i
    ELSE IF Head(p) = WS
         THEN IF i <= Len(s) /\ IsSpace(s[i])
              THEN MatchEnd(s, i + 1, p)
              ELSE MatchEnd(s, i, Tail(p))
    ELSE IF i <= Len(s) /\ s[i] = Head(p)
         THEN MatchEnd(s, i + 1, Tail(p))
         ELSE 0

\* re.search(pat, s) for pat = [bol, eol, items]: ^ anchors at the start of
\* the string, $ at its end or before a final newline
re_search(pat, s) ==
    \E i \in 1..(Len(s) + 1) :
        /\ pat.bol => i = 1
        /\ LET e == MatchEnd(s, i, pat.items)
           IN  /\ e # 0
               /\ pat.eol => \/ e = Len(s) + 1
                             \/ e = Len(s) /\ s[Len(s)] = "\n"

Pat(items) == [bol |-> FALSE, eol |-> FALSE, items |-> items]
PatBol(items) == [bol |-> TRUE, eol |-> FALSE, items |-> items]
PatBolEol(items) == [bol |-> TRUE, eol |-> TRUE, items |-> items]

\* a in b for Python strings
Contains(b, a) ==
    \E i \in 0..(Len(b) - Len(a)) : SubSeq(b, i + 1, i + Len(a)) = a

RECURSIVE Count(_, _)
Count(s, c) ==
    IF s = <<>> THEN 0
    ELSE (IF Head(s) = c THEN 1 ELSE 0) + Count(Tail(s), c)

Digits == {"0", "1", "2", "3", "4", "5", "6", "7", "8", "9"}

-----------------------------------------------------------------------------
(* Answer Quality Classifier *)

MIN_ANSWER_CHARS == 10

CONFUSED_ANSWER_PATTERNS ==
    { Pat(<<"mo", "reu", "gess">>),
      Pat(<<"jal", WS, "mo", "reu">>),
      Pat(<<"gam", "xi", WS, "xan">>),
      Pat(<<"saeng", "gag", "xi", WS, "xan">>),
      Pat(<<"xeo", "ryeob">>) }

SHORT_ANSWER_PATTERNS ==
    { PatBol(<<"mo", "reu", "gess">>),
      PatBol(<<"jal", WS, "mo", "reu">>),
      PatBol(<<"geu", "nyang">>),
      PatBol(<<"xeobs", "xeo">>),
      PatBolEol(<<"mo", "reum">>),
      PatBolEol(<<"jn", "jn">>),
      PatBolEol(<<"mol", "ra">>) }

is_too_short_answer(ans) ==
    LET a == strip(ans)
    IN  \/ Len(a) < MIN_ANSWER_CHARS
        \/ \E pat \in SHORT_ANSWER_PATTERNS : re_search(pat, a)

normalize(s) == collapse(strip(s))

\* relative-time phrases of src/app.py:625
TIME_PATTERNS ==
    { Pat(<<"xi", "beon", WS, "ju">>), Pat(<<"da", "xeum", WS, "ju">>),
      Pat(<<"xi", "beon", WS, "dal">>), Pat(<<"xol", "hae">>),
      Pat(<<"nae", "nyeon">>), Pat(<<"xo", "neul">>), Pat(<<"nae", "xil">>),
      Pat(<<"xeo", "je">>), Pat(<<"ju", "mal">>) }

\* the number of information signals counted by _has_meaningful_content;
\* (A|B|C)\s*(..)? matches exactly when one of A, B, C occurs
signals(a) ==
      (IF \E i \in 1..Len(a) : a[i] \in Digits THEN 1 ELSE 0)
    + (IF \E pat \in TIME_PATTERNS : re_search(pat, a) THEN 1 ELSE 0)
    + (IF \E i \in 1..Len(a) : a[i] \in {"A", "B", "C"} THEN 1 ELSE 0)
    + (IF Len(a) >= 35 THEN 1 ELSE 0)
    + (IF Count(a, ",") >= 2 THEN 1 ELSE 0)

has_meaningful_content(ans) ==
    LET a == normalize(ans)
    IN  a # <<>> /\ signals(a) >= 2

is_confused_answer(ans) ==
    LET a == strip(ans)
    IN  /\ a # <<>>
        /\ \E pat \in CONFUSED_ANSWER_PATTERNS : re_search(pat, a)
        /\ \/ is_too_short_answer(a)
           \/ ~has_meaningful_content(a)

-----------------------------------------------------------------------------
(* Text Normalizer / Similarity Scorer *)

\* characters that are neither \w, nor Hangul, nor the space: the punctuation
\* of the texts of this model
Punct ==
    {"?", "!", ".", ",", ":", ";", "(", ")", "/", "~", "-", "'", "dq", "lq", "rq", "arrow"}

\* str.lower: the lower-case letter of every ASCII capital
LowerOf ==
    [ A |-> "a", B |-> "b", C |-> "c", D |-> "d", E |-> "e", F |-> "f", G |-> "g",
      H |-> "h", I |-> "i", J |-> "j", K |-> "k", L |-> "l", M |-> "m", N |-> "n",
      O |-> "o", P |-> "p", Q |-> "q", R |-> "r", S |-> "s", T |-> "t", U |-> "u",
      V |-> "v", W |-> "w", X |-> "x", Y |-> "y", Z |-> "z" ]

lower(c) ==
    IF c \in DOMAIN LowerOf THEN LowerOf[c] ELSE c

\* s.split(" "): the pieces between single spaces, as a set
RECURSIVE split(_, _)
split(s, cur) ==
    IF s = <<>> THEN {cur}
    ELSE IF Head(s) = " " THEN {cur} \cup split(Tail(s), <<>>)
    ELSE split(Tail(s), Append(cur, Head(s)))

\* re.sub(r"[^\w..-.. ]", " ", s) followed by lower(), one character at a time
\* (lower() leaves the space alone, so the order does not matter)
RECURSIVE clean(_)
clean(s) ==
    IF s = <<>> THEN <<>>
    ELSE <<IF Head(s) \in Punct \/ IsSpace(Head(s)) THEN " " ELSE lower(Head(s))>>
         \o clean(Tail(s))

\* toks of token_overlap
toks(s) ==
    {t \in split(strip(collapse(clean(s))), <<>>) : Len(t) >= 2}

\* variant: the overlap is measured against the first text's token count
token_overlap_first_len(a, b) ==
    LET ta == toks(a)
        tb == toks(b)
        la == Cardinality(ta)
    IN  IF ta = {} \/ tb = {}
        THEN [num |-> 0, den |-> 1]
        ELSE [num |-> Cardinality(ta \cap tb), den |-> IF la > 1 THEN la ELSE 1]

\* token_overlap as the fraction num/den (0/1 when a token set is empty)
token_overlap(a, b) ==
    LET ta == toks(a)
        tb == toks(b)
        la == Cardinality(ta)
        lb == Cardinality(tb)
        m  == IF la < lb THEN la ELSE lb
    IN  IF ta = {} \/ tb = {}
        THEN [num |-> 0, den |-> 1]
        ELSE [num |-> Cardinality(ta \cap tb), den |-> IF m > 1 THEN m ELSE 1]

\* overlap >= 0.75 is 4 * num >= 3 * den
is_similar(a, b) ==
    LET a0 == normalize(a)
        b0 == normalize(b)
    IN  IF a0 = <<>> \/ b0 = <<>> THEN FALSE
        ELSE IF a0 = b0 THEN TRUE
        ELSE IF Contains(b0, a0) \/ Contains(a0, b0) THEN TRUE
        ELSE LET r == token_overlap(a0, b0) IN 4 * r.num >= 3 * r.den

-----------------------------------------------------------------------------
(* Fixed question texts of the source *)

\* 35 characters
FQ_First ==
    <<"ji", "geum", " ", "go", "min", "xe", "seo", " ", "lq", "ga", "jang", " ", "haeg", "sim",
      "jeog", "xin", " ", "jaeng", "jeom", "rq", "xeun", " ", "mu", "xeos", "xin", "ga", "xyo",
      "?", " ", "(", "han", " ", "mun", "jang", ")">>

\* 59 characters
FQ_Second ==
    <<"xi", "beon", " ", "gyeol", "jeong", "xeu", "ro", " ", "xeod", "go", " ", "sip", "xeun", " ",
      "mog", "pyo", "reul", " ", "lq", "cheug", "jeong", " ", "ga", "neung", "ha", "ge", "rq", " ",
      "ba", "kku", "myeon", " ", "xeo", "tteoh", "ge", " ", "pyo", "hyeon", "hal", " ", "su", " ",
      "xiss", "na", "xyo", "?", " ", "(", "xeon", "je", "kka", "ji", "/", "xeo", "neu", " ",
      "jeong", "do", ")">>

\* 40 characters
FQ_ActionLast ==
    <<"xaeb", "xeul", " ", "kkeu", "go", " ", "na", "seo", " ", "5", "bun", " ", "xan", "xe", " ",
      "hal", " ", "su", " ", "xiss", "neun", " ", "lq", "ga", "jang", " ", "jag", "xeun", " ",
      "haeng", "dong", "rq", "xeun", " ", "mu", "xeos", "xin", "ga", "xyo", "?">>

\* 51 characters
FQ_ActionTop3 ==
    <<"xob", "syeon", "/", "hae", "xya", " ", "hal", " ", "xil", " ", "3", "~", "6", "gae", "reul",
      " ", "jeog", "go", ",", " ", "hyo", "gwa", "/", "jung", "xyo", "do", "/", "nan", "xi", "do",
      "reul", " ", "go", "ryeo", "haess", "xeul", " ", "ttae", " ", "T", "o", "p", "3", "neun",
      " ", "mu", "xeos", "xin", "ga", "xyo", "?">>

\* 71 characters
FQ_ActionPremortem ==
    <<"2", "ju", " ", "dwi", " ", "sil", "pae", "haess", "da", "go", " ", "ga", "jeong", "ha",
      "myeon", ",", " ", "ga", "jang", " ", "geu", "reol", "deus", "han", " ", "xwon", "xin", " ",
      "3", "ga", "ji", "neun", " ", "mu", "xeos", "xi", "go", " ", "gag", "gag", " ", "lq", "man",
      "xyag", " ", "~", "xi", "myeon", " ", "arrow", " ", "~", "han", "da", "rq", "ro", " ", "dae",
      "xeung", "xeul", " ", "jeog", "xeo", "bol", " ", "su", " ", "xiss", "na", "xyo", "?">>

\* 50 characters
FQ_ActionSplit ==
    <<"T", "o", "p", "1", "xeul", " ", "lq", "1", "nyeon", " ", "mog", "pyo", " ", "arrow", " ",
      "xi", "beon", " ", "dal", " ", "mog", "pyo", " ", "arrow", " ", "xi", "beon", " ", "ju", " ",
      "gye", "hoeg", "(", "3", "gae", ")", "rq", "ro", " ", "jeog", "xeo", "bo", "myeon", " ",
      "mu", "xeos", "xin", "ga", "xyo", "?">>

\* 61 characters
FQ_ActionIfThen ==
    <<"sil", "haeng", "xeul", " ", "lq", "man", "xyag", "(", "I", "f", ")", " ", "~", " ", "sang",
      "hwang", "xi", "myeon", " ", "arrow", " ", "geu", "reo", "myeon", "(", "T", "h", "e", "n",
      ")", " ", "~", " ", "haeng", "dong", "rq", "xeu", "ro", " ", "teu", "ri", "geo", " ", "2",
      "~", "3", "gae", "reul", " ", "man", "deul", "xeo", "bo", "myeon", " ", "mu", "xeos", "xin",
      "ga", "xyo", "?">>

\* 45 characters
FQ_ActionDefault ==
    <<"da", "xeum", " ", "haeng", "dong", "xeul", " ", "deo", " ", "gu", "che", "hwa", "ha",
      "myeon", "(", "mu", "xeos", "xeul", "/", "xeol", "ma", "na", "/", "xeo", "tteon", " ", "jo",
      "geon", "xe", "seo", ")", " ", "xeo", "tteoh", "ge", " ", "jeog", "xeul", " ", "su", " ",
      "xiss", "na", "xyo", "?">>

\* 36 characters
FQ_LogicReverse ==
    <<"man", "xyag", " ", "dang", "sin", "xi", " ", "se", "xun", " ", "gi", "jun", "xi", " ",
      "xwan", "jeon", "hi", " ", "teul", "ryeoss", "da", "myeon", " ", "xeo", "tteon", " ", "sang",
      "hwang", "xi", " ", "beol", "xeo", "jil", "kka", "xyo", "?">>

\* 30 characters
FQ_LogicCriteria ==
    <<"xi", " ", "seon", "taeg", "xeul", " ", "pyeong", "ga", "hal", " ", "gi", "jun", " ", "3",
      "~", "5", "gae", "reul", " ", "jeog", "xeo", "bo", "myeon", " ", "mu", "xeos", "xin", "ga",
      "xyo", "?">>

\* 30 characters
FQ_LogicLast ==
    <<"seon", "taeg", " ", "gi", "jun", "xui", " ", "xu", "seon", "sun", "xwi", "reul", " ", "1",
      "~", "3", "xwi", "ro", " ", "jeong", "ri", "ha", "myeon", " ", "mu", "xeos", "xin", "ga",
      "xyo", "?">>

\* 35 characters
FQ_LogicUncertain ==
    <<"ji", "geum", " ", "gyeol", "jeong", "xeul", " ", "xeo", "ryeob", "ge", " ", "man", "deu",
      "neun", " ", "lq", "bul", "hwag", "sil", "han", " ", "ga", "jeong", "/", "jeong", "bo", "rq",
      "neun", " ", "mu", "xeos", "xin", "ga", "xyo", "?">>

\* 37 characters
FQ_LogicDefault ==
    <<"xob", "syeon", "/", "je", "xyag", "/", "jeong", "bo", "reul", " ", "bun", "ri", "hae",
      "seo", " ", "ji", "geum", " ", "bu", "jog", "han", " ", "jeong", "bo", "neun", " ", "mu",
      "xeos", "xin", "ji", " ", "jeog", "xeo", "bol", "kka", "xyo", "?">>

\* 43 characters
FQ_ValueEmotion ==
    <<"ji", "geum", " ", "gam", "jeong", "xeul", " ", "2", "~", "3", "gae", " ", "dan", "xeo",
      "ro", " ", "jeog", "go", ",", " ", "gag", " ", "gam", "jeong", "xi", " ", "saeng", "gin",
      " ", "xi", "xyu", "reul", " ", "han", " ", "jul", "ssig", " ", "sseo", "bol", "kka", "xyo",
      "?">>

\* 47 characters
FQ_ValueSeparate ==
    <<"geu", " ", "gam", "jeong", "xeun", " ", "lq", "ji", "geum", " ", "dang", "jang", "xui", " ",
      "pyeon", "xan", "ham", "rq", " ", "ttae", "mun", "xin", "ga", "xyo", ",", " ", "lq", "mi",
      "rae", "xui", " ", "na", "reul", " ", "xwi", "han", " ", "ga", "chi", "rq", " ", "ttae",
      "mun", "xin", "ga", "xyo", "?">>

\* 34 characters
FQ_ValueRegret ==
    <<"1", "nyeon", "/", "5", "nyeon", " ", "dwi", "xui", " ", "nae", "ga", " ", "ji", "geum",
      "xui", " ", "na", "xe", "ge", " ", "mwo", "ra", "go", " ", "mal", "hae", "jul", " ", "geos",
      " ", "gat", "na", "xyo", "?">>

\* 29 characters
FQ_ValueDefault ==
    <<"xi", " ", "go", "min", "xe", "seo", " ", "ga", "jang", " ", "jung", "xyo", "han", " ", "ga",
      "chi", " ", "T", "o", "p", "3", "neun", " ", "mu", "xeos", "xin", "ga", "xyo", "?">>

\* 42 characters
ProbeFallbackQ ==
    <<"bang", "geum", " ", "dab", "byeon", "xe", "seo", " ", "lq", "xye", "si", " ", "1", "gae",
      "rq", "man", " ", "deul", "xeo", "seo", " ", "jo", "geum", " ", "deo", " ", "ja", "se", "hi",
      " ", "seol", "myeong", "hae", "jul", " ", "su", " ", "xiss", "xeul", "kka", "xyo", "?">>

\* 48 characters
ReframeFallbackQ ==
    <<"xi", " ", "jil", "mun", "xi", " ", "xeo", "ryeob", "da", "myeon", ",", " ", "lq", "xi",
      "beon", " ", "sang", "hwang", "xe", "seo", " ", "ga", "jang", " ", "sin", "gyeong", " ",
      "sseu", "xi", "neun", " ", "han", " ", "ga", "ji", "rq", "man", " ", "go", "reu", "myeon",
      " ", "mu", "xeos", "xin", "ga", "xyo", "?">>

COACH_IDS == {"logic", "value", "action"}

fallback_question(coach_id, i, n) ==
    IF i = 0 THEN FQ_First
    ELSE IF i = 1 THEN FQ_Second
    ELSE IF coach_id = "action" THEN
        IF i = n - 1 THEN FQ_ActionLast
        ELSE IF i = 2 THEN FQ_ActionTop3
        ELSE IF (n = 5 /\ i = 3) \/ (n >= 6 /\ i = n - 2) THEN FQ_ActionPremortem
        ELSE IF n >= 6 /\ i = 3 THEN FQ_ActionSplit
        ELSE IF n >= 6 /\ i = 4 THEN FQ_ActionIfThen
        ELSE FQ_ActionDefault
    ELSE IF coach_id = "logic" THEN
        IF n >= 5 /\ i = n - 2 THEN FQ_LogicReverse
        ELSE IF i = 2 THEN FQ_LogicCriteria
        ELSE IF i = n - 1 THEN FQ_LogicLast
        ELSE IF i = n - 2 /\ n < 5 THEN FQ_LogicUncertain
        ELSE FQ_LogicDefault
    ELSE
        IF i = 2 THEN FQ_ValueEmotion
        ELSE IF i = 3 /\ n >= 5 THEN FQ_ValueSeparate
        ELSE IF i = n - 2 THEN FQ_ValueRegret
        ELSE FQ_ValueDefault

-----------------------------------------------------------------------------
(* Inputs: what the user types and what the text-generation collaborator   *)
(* returns.  call_openai_text returns stripped, non-empty text, or None.   *)

\* 19 characters
AnsClear ==
    <<"xi", "jig", "hae", "seo", " ", "3", "nyeon", " ", "xan", "xe", " ", "seong", "jang", "ha",
      "go", " ", "sip", "xeo", "xyo">>

\* 3 characters
AnsBrief ==
    <<"geu", "nyang", "xyo">>

\* 7 characters
AnsUnsure ==
    <<"jal", " ", "mo", "reu", "gess", "xeo", "xyo">>

\* 17 characters
AnsUnsureLong ==
    <<"gyeol", "jeong", "ha", "gi", "ga", " ", "neo", "mu", " ", "xeo", "ryeob", "da", "go", " ",
      "neu", "kkyeo", "xyo">>

\* 2 characters
AnsBlank ==
    <<" ", " ">>

\* 18 characters
CollabQ1 ==
    <<"ga", "jang", " ", " ", "geog", "jeong", "doe", "neun", " ", "jeom", "xeun", " ", "mu",
      "xeos", "xin", "ga", "xyo", "?">>

\* 17 characters
CollabQ2 ==
    <<"ga", "jang", " ", "geog", "jeong", "doe", "neun", " ", "jeom", "xeun", " ", "mu", "xeos",
      "xin", "ga", "xyo", "?">>

\* 21 characters
CrossQ1 ==
    <<"xan", "jeong", "gwa", " ", "seong", "jang", " ", "jung", " ", "mu", "xeos", "xi", " ",
      "deo", " ", "jung", "xyo", "han", "ga", "xyo", "?">>

\* 16 characters
CollabProbeQ ==
    <<"xye", "reul", " ", "ha", "na", " ", "deul", "xeo", "jul", " ", "su", " ", "xiss", "na",
      "xyo", "?">>

\* answers that name a confusion keyword and carry two information signals
\* (a digit, an option marker)
\* 13 characters
AnsUnsureDense ==
    <<"jal", " ", "mo", "reu", "gess", "xeo", "xyo", " ", "A", "xan", " ", "3", "nyeon">>

\* 8 characters
AnsDenseShort ==
    <<"A", "xan", " ", "3", " ", "mo", "reu", "gess">>

\* 23 characters
AnsDenseLong ==
    <<"A", "xan", "gwa", " ", "B", "xan", " ", "jung", " ", "3", "nyeon", " ", "dwi", "ga", " ",
      "xeo", "ryeob", "ge", " ", "neu", "kkyeo", "jyeo", "xyo">>

\* 8 characters
SimShort ==
    <<"mu", "xeos", "xin", "ga", "xyo", " ", "ga", "jang">>

\* no text: None from the collaborator, "" from the form
None == <<>>

\* texts typed into the answer form
AnswerInputs == {None, AnsBlank, AnsClear, AnsBrief, AnsUnsure}

\* results of call_openai_text for a question request
QuestionOutcomes == {None, CollabQ1, CollabQ2}

\* results of call_openai_text for a probe or reframe request
ProbeOutcomes == {None, CollabProbeQ}

\* results of the conflict check: no text, text that safe_json_parse rejects,
\* or a parsed object with its has_conflict and question fields
CrossOutcomes ==
    {[kind |-> "fail"], [kind |-> "badjson"]}
    \cup [kind : {"json"}, has_conflict : BOOLEAN, question : {None, CrossQ1, CollabQ1}]

Slots == 0..(MaxN - 1)

\* texts the classifier and the similarity scorer are studied on
TextInputs ==
    {AnsBlank, AnsClear, AnsBrief, AnsUnsure, AnsUnsureLong, AnsUnsureDense,
     AnsDenseShort, AnsDenseLong, CollabQ1, CollabQ2, SimShort, FQ_First}

-----------------------------------------------------------------------------
(* Session state (st.session_state) *)

VARIABLES
    page,                 \* "landing" | "setup_details" | "questions" | "report"
    num_questions,        \* target question count N
    coach_id,             \* selected persona
    q_index,              \* current slot
    questions,            \* generated main questions, slot i at position i + 1
    answers,              \* AnswerRecords; the ts field is not modelled
    probe_active,
    probe_question,
    probe_for_index,      \* -1 stands for None
    probe_mode,           \* "short" | "reframe" | ""
    crosscheck_used_for,  \* the slots checked for conflicts, as a set
    crosscheck_calls,     \* history: conflict-check collaborator calls per slot
    generation_calls,     \* history: question-generation collaborator calls per slot
    empty_submitted,      \* history: the last script run was a submit of an empty text
    final_report_json,    \* the report document shown, or NoDoc
    final_report_raw,     \* the collaborator text the document was parsed from, or NoText
    report_trace,         \* history: the last generate_final_report_json call
    text_a,               \* first argument of the text function under study
    text_b,               \* second argument of the text function under study
    text_result,          \* the function applied and its value or its arguments, or NoResult
    summary_text,         \* Summary Buffer: the running summary
    summarized_count,     \* Summary Buffer: main answers already folded in
    user_problem,         \* the problem text of the landing page
    situation             \* the situation text of the session

probeVars == <<probe_active, probe_question, probe_for_index, probe_mode>>
genVars == <<questions, crosscheck_used_for, crosscheck_calls, generation_calls>>
setupVars == <<num_questions, coach_id, user_problem, situation>>
reportVars == <<final_report_json, final_report_raw, report_trace>>
textVars == <<text_a, text_b, text_result>>
summaryVars == <<summary_text, summarized_count>>
vars == <<page, setupVars, q_index, answers, probeVars, genVars, empty_submitted,
          reportVars, textVars, summaryVars>>

\* no report document, no collaborator text, no record of a report call, no
\* function applied
NoDoc == [kind |-> "none"]
NoText == [kind |-> "notext"]
NoTrace == [calls |-> 0]
NoResult == [op |-> "none"]

Max(a, b) == IF a > b THEN a ELSE b
Min(a, b) == IF a < b THEN a ELSE b

\* the slots of the long sessions
SeqSlots == 0..(MaxSeqN - 1)

NoCalls == [s \in Slots \cup SeqSlots |-> 0]

init_state ==
    /\ page = "landing"
    /\ num_questions = 5
    /\ coach_id = "logic"
    /\ user_problem = None
    /\ situation = None
    /\ q_index = 0
    /\ questions = <<>>
    /\ answers = <<>>
    /\ probe_active = FALSE
    /\ probe_question = None
    /\ probe_for_index = -1
    /\ probe_mode = ""
    /\ crosscheck_used_for = {}
    /\ crosscheck_calls = NoCalls
    /\ generation_calls = NoCalls
    /\ empty_submitted = FALSE
    /\ final_report_json = NoDoc
    /\ final_report_raw = NoText
    /\ report_trace = NoTrace

\* the Summary Buffer of a new session
init_summary ==
    /\ summary_text = None
    /\ summarized_count = 0

Init ==
    /\ init_state
    /\ init_summary
    /\ text_a = None
    /\ text_b = None
    /\ text_result = NoResult

AnswerRecord(q, a, kind, main_index, subkind) ==
    [q |-> q, a |-> a, kind |-> kind, subkind |-> subkind, main_index |-> main_index]

\* add_answer that puts the new record in front
add_answer_prepends(ans, q, a, kind, main_index, subkind) ==
    <<AnswerRecord(q, a, kind, main_index, subkind)>> \o ans

add_answer(ans, q, a, kind, main_index, subkind) ==
    Append(ans, AnswerRecord(q, a, kind, main_index, subkind))

main_answer_count(ans) ==
    Cardinality({k \in 1..Len(ans) : ans[k].kind = "main"})

-----------------------------------------------------------------------------
(* Conflict Detector and Question Sequencer *)

\* try_logic_crosscheck_question without the test for 2 main answers
try_logic_crosscheck_question_any_count(main_index, ans, used, XOut) ==
    IF main_index \in used THEN {[q |-> None, used |-> used, called |-> 0]}
    ELSE { IF o.kind \in {"fail", "badjson"}
           THEN [q |-> None, used |-> used, called |-> 1]
           ELSE [q |-> IF o.has_conflict /\ normalize(o.question) # None
                       THEN normalize(o.question) ELSE None,
                 used |-> used \cup {main_index},
                 called |-> 1]
           : o \in XOut }

\* The possible results [q, used, called] of one call: the conflict question
\* or None, the new crosscheck_used_for, and the number of collaborator calls.
try_logic_crosscheck_question(main_index, ans, used, XOut) ==
    IF main_index \in used THEN {[q |-> None, used |-> used, called |-> 0]}
    ELSE IF main_answer_count(ans) < 2 THEN {[q |-> None, used |-> used, called |-> 0]}
    ELSE { IF o.kind \in {"fail", "badjson"}
           THEN [q |-> None, used |-> used, called |-> 1]
           ELSE [q |-> IF o.has_conflict /\ normalize(o.question) # None
                       THEN normalize(o.question) ELSE None,
                 used |-> used \cup {main_index},
                 called |-> 1]
           : o \in XOut }

\* any(is_similar(q, pq) for pq in prev_qs)
AnySimilar(q, prev_qs) ==
    \E k \in 1..Len(prev_qs) : is_similar(q, prev_qs[k])

\* generate_question that takes the conflict question without comparing it
\* with the previous questions
generate_question_unchecked_conflict(i, n, coach, prev_qs, ans, used, QOut, XOut) ==
    UNION {
        IF c.q # None
        THEN {[q |-> c.q, used |-> c.used, cc |-> c.called, gen |-> 0]}
        ELSE UNION {
            IF q1 = None
            THEN {[q |-> fallback_question(coach, i, n),
                   used |-> c.used, cc |-> c.called, gen |-> 1]}
            ELSE IF ~AnySimilar(normalize(q1), prev_qs)
            THEN {[q |-> normalize(q1), used |-> c.used, cc |-> c.called, gen |-> 1]}
            ELSE {[q |-> IF q2 # None /\ ~AnySimilar(normalize(q2), prev_qs)
                         THEN normalize(q2)
                         ELSE fallback_question(coach, i, n),
                   used |-> c.used, cc |-> c.called, gen |-> 2]
                  : q2 \in QOut}
            : q1 \in QOut}
        : c \in try_logic_crosscheck_question(i, ans, used, XOut)}

\* generate_question that keeps the second text although it collides
generate_question_keeps_collision(i, n, coach, prev_qs, ans, used, QOut, XOut) ==
    UNION {
        IF c.q # None /\ ~AnySimilar(c.q, prev_qs)
        THEN {[q |-> c.q, used |-> c.used, cc |-> c.called, gen |-> 0]}
        ELSE UNION {
            IF q1 = None
            THEN {[q |-> fallback_question(coach, i, n),
                   used |-> c.used, cc |-> c.called, gen |-> 1]}
            ELSE IF ~AnySimilar(normalize(q1), prev_qs)
            THEN {[q |-> normalize(q1), used |-> c.used, cc |-> c.called, gen |-> 1]}
            ELSE {[q |-> IF q2 # None
                         THEN normalize(q2)
                         ELSE fallback_question(coach, i, n),
                   used |-> c.used, cc |-> c.called, gen |-> 2]
                  : q2 \in QOut}
            : q1 \in QOut}
        : c \in try_logic_crosscheck_question(i, ans, used, XOut)}

\* The possible results [q, used, cc, gen] of generate_question(i, n): the
\* question, the new crosscheck_used_for, the conflict-check calls (0 or 1)
\* and the generation calls (0, 1 or 2) it made.
generate_question(i, n, coach, prev_qs, ans, used, QOut, XOut) ==
    UNION {
        IF c.q # None /\ ~AnySimilar(c.q, prev_qs)
        THEN {[q |-> c.q, used |-> c.used, cc |-> c.called, gen |-> 0]}
        ELSE UNION {
            IF q1 = None
            THEN {[q |-> fallback_question(coach, i, n),
                   used |-> c.used, cc |-> c.called, gen |-> 1]}
            ELSE IF ~AnySimilar(normalize(q1), prev_qs)
            THEN {[q |-> normalize(q1), used |-> c.used, cc |-> c.called, gen |-> 1]}
            ELSE {[q |-> IF q2 # None /\ ~AnySimilar(normalize(q2), prev_qs)
                         THEN normalize(q2)
                         ELSE fallback_question(coach, i, n),
                   used |-> c.used, cc |-> c.called, gen |-> 2]
                  : q2 \in QOut}
            : q1 \in QOut}
        : c \in try_logic_crosscheck_question(i, ans, used, XOut)}

\* The possible results of ensure_question(index, total) from the generation
\* state g = [questions, used, cc, gen].
RECURSIVE ensure_question(_, _, _, _, _, _, _)
ensure_question(index, total, coach, ans, g, QOut, XOut) ==
    IF Len(g.questions) > index THEN {g}
    ELSE LET i == Len(g.questions)
         IN  UNION {
                ensure_question(index, total, coach, ans,
                    [questions |-> Append(g.questions, r.q),
                     used |-> r.used,
                     cc |-> [g.cc EXCEPT ![i] = @ + r.cc],
                     gen |-> [g.gen EXCEPT ![i] = @ + r.gen]],
                    QOut, XOut)
                : r \in generate_question(i, total, coach, g.questions, ans, g.used,
                                          QOut, XOut)}

generate_probe_question(q) ==
    IF q = None THEN ProbeFallbackQ ELSE normalize(q)

generate_reframe_question(q) ==
    IF q = None THEN ReframeFallbackQ ELSE normalize(q)

-----------------------------------------------------------------------------
(* Report Generator and Validator *)

\* r"~?X" is found exactly when X is; "(은|:)" is written as two patterns;
\* wb marks the leading \b
FORBIDDEN_RECOMMEND_PATTERNS ==
    { [wb |-> FALSE, items |-> <<"chu", "cheon", "hab", "ni", "da">>],
      [wb |-> FALSE, items |-> <<"chu", "cheon", "deu">>],
      [wb |-> FALSE, items |-> <<"ha", "neun", " ", "geos", "xi", " ", "joh">>],
      [wb |-> FALSE, items |-> <<"ha", "neun", " ", "ge", " ", "joh">>],
      [wb |-> FALSE, items |-> <<"ha", "si", "myeon", " ", "joh">>],
      [wb |-> FALSE, items |-> <<"hae", "xya", " ", "hab", "ni", "da">>],
      [wb |-> FALSE, items |-> <<"ha", "si", "gil">>],
      [wb |-> FALSE, items |-> <<"ha", "neun", " ", "ge", " ", "nas">>],
      [wb |-> FALSE, items |-> <<"jeong", "dab", "xeun">>],
      [wb |-> FALSE, items |-> <<"jeong", "dab", ":">>],
      [wb |-> FALSE, items |-> <<"gyeol", "ron", "xeun">>],
      [wb |-> FALSE, items |-> <<"gyeol", "ron", ":">>],
      [wb |-> TRUE, items |-> <<"A", "reul", WS, "seon", "taeg">>],
      [wb |-> TRUE, items |-> <<"B", "reul", WS, "seon", "taeg">>] }

\* \w: letters, Hangul, digits; not whitespace or punctuation
IsWordChar(c) ==
    ~IsSpace(c) /\ c \notin (Punct \cup {"bs", "{", "}", "[", "]"})

contains_forbidden_recommendation(text) ==
    \E pat \in FORBIDDEN_RECOMMEND_PATTERNS :
        \E i \in 1..Len(text) :
            /\ pat.wb => (i = 1 \/ ~IsWordChar(text[i - 1]))
            /\ MatchEnd(text, i, pat.items) # 0

\* json.dumps of a string: quotes, backslashes and control characters escaped
RECURSIVE json_string(_)
json_string(s) ==
    IF s = <<>> THEN <<>>
    ELSE (CASE Head(s) = "dq" -> <<"bs", "dq">>
            [] Head(s) = "bs" -> <<"bs", "bs">>
            [] Head(s) = "\n" -> <<"bs", "n">>
            [] Head(s) = "\t" -> <<"bs", "t">>
            [] OTHER -> <<Head(s)>>) \o json_string(Tail(s))

\* json.dumps(data, ensure_ascii=False) of a document: its string values in
\* order, each quoted.  The keys are left out: they are ASCII identifiers, and
\* no forbidden pattern matches inside or across them.
RECURSIVE json_values(_)
json_values(fields) ==
    IF fields = <<>> THEN <<>>
    ELSE <<"dq">> \o json_string(Head(fields)) \o <<"dq">>
         \o (IF Len(fields) > 1 THEN <<",", " ">> ELSE <<>>)
         \o json_values(Tail(fields))

json_dumps(data) == <<"{">> \o json_values(data.fields) \o <<"}">>

\* the texts of the fallback skeleton
\* 18 characters
FR_CoreIssueDefault ==
    <<"haeg", "sim", " ", "go", "min", "xi", " ", "xyo", "xyag", "doe", "ji", " ", "xanh", "xass",
      "seub", "ni", "da", ".">>

\* 18 characters
FR_GoalDefault ==
    <<"mog", "pyo", "ga", " ", "myeong", "hwag", "hi", " ", "jeog", "hi", "ji", " ", "xanh",
      "xass", "seub", "ni", "da", ".">>

\* 46 characters
FR_InfoCheck1 ==
    <<"xi", " ", "gyeol", "jeong", "xeul", " ", "deo", " ", "ga", "byeob", "ge", " ", "man",
      "deul", "gi", " ", "xwi", "hae", ",", " ", "ji", "geum", " ", "lq", "hwag", "xin", "doe",
      "ji", " ", "xanh", "xeun", " ", "sa", "sil", "/", "ga", "jeong", "rq", "xeun", " ", "mu",
      "xeos", "xin", "ga", "xyo", "?">>

\* 47 characters
FR_InfoCheck2 ==
    <<"choe", "xag", "xui", " ", "gyeong", "xu", "reul", " ", "sang", "sang", "haess", "xeul", " ",
      "ttae", ",", " ", "sil", "je", "ro", " ", "gam", "dang", " ", "ga", "neung", "han", " ",
      "bi", "xyong", "/", "son", "sil", "xui", " ", "beom", "xwi", "neun", " ", "xeo", "neu", " ",
      "jeong", "do", "xin", "ga", "xyo", "?">>

\* 57 characters
FR_Coaching1 ==
    <<"ji", "geum", "xeun", " ", "lq", "jeong", "ri", "rq", "ga", " ", "pil", "xyo", "ha", "da",
      "neun", " ", "neu", "kkim", "gwa", ",", " ", "dong", "si", "xe", " ", "lq", "hwag", "sin",
      "xi", " ", "bu", "jog", "ha", "da", "rq", "neun", " ", "neu", "kkim", "xi", " ", "ham",
      "kke", " ", "xiss", "neun", " ", "sang", "tae", "cheo", "reom", " ", "bo", "xib", "ni", "da",
      ".">>

\* 50 characters
FR_Coaching2 ==
    <<"dang", "sin", "xe", "ge", " ", "jung", "xyo", "han", " ", "gi", "jun", "xi", " ", "mu",
      "xeos", "xin", "ji", "ga", " ", "seon", "myeong", "hae", "jil", "su", "rog", ",", " ",
      "seon", "taeg", "xi", " ", "deol", " ", "mu", "geob", "ge", " ", "neu", "kkyeo", "jil", " ",
      "ga", "neung", "seong", "xi", " ", "xiss", "xeo", "xyo", ".">>

\* 41 characters
FR_NextSelfQuestion ==
    <<"nae", "ga", " ", "ji", "geum", " ", "ga", "jang", " ", "noh", "chi", "gi", " ", "silh",
      "xeun", " ", "gi", "jun", " ", "1", "gae", "neun", " ", "mu", "xeos", "xi", "go", ",", " ",
      "xwae", " ", "geu", "geos", "xi", " ", "jung", "xyo", "han", "ga", "xyo", "?">>

\* s[:180] of the summary fields
SUMMARY_FIELD_CHARS == 180

Prefix(s, n) == SubSeq(s, 1, Min(Len(s), n))

\* the persona block of a document
persona_block(coach) ==
    CASE coach = "logic" -> "key_points"
      [] coach = "action" -> "plan_visualization"
      [] OTHER -> "emotions_values"

\* fallback_report_json() for the session's situation, goal and options (the
\* stripped, non-empty pieces of the options text) and coach
fallback_report_json(sit, goal, opts, coach) ==
    [kind |-> "fallback",
     block |-> persona_block(coach),
     fields |->
        << IF Prefix(normalize(sit), SUMMARY_FIELD_CHARS) # None
           THEN Prefix(normalize(sit), SUMMARY_FIELD_CHARS)
           ELSE FR_CoreIssueDefault,
           IF Prefix(normalize(goal), SUMMARY_FIELD_CHARS) # None
           THEN Prefix(normalize(goal), SUMMARY_FIELD_CHARS)
           ELSE FR_GoalDefault >>
        \o opts
        \o << FR_InfoCheck1, FR_InfoCheck2, FR_Coaching1, FR_Coaching2,
              FR_NextSelfQuestion >>]

\* what the user wrote as the situation of the session
\* 14 characters
SitPlain ==
    <<"xi", "jig", "hal", "ji", " ", "nam", "xeul", "ji", " ", "go", "min", "xib", "ni", "da">>

\* 16 characters
SitMust ==
    <<"xol", "hae", " ", "xan", "xe", " ", "xi", "jig", "xeul", " ", "hae", "xya", " ", "hab",
      "ni", "da">>

\* sentences of the collaborator's report drafts
\* 13 characters
DraftIssue ==
    <<"xi", "jig", "gwa", " ", "jan", "ryu", " ", "sa", "xi", "xui", " ", "go", "min">>

\* 25 characters
DraftMirror ==
    <<"xan", "jeong", "gwa", " ", "seong", "jang", " ", "sa", "xi", "xe", "seo", " ", "mang",
      "seol", "xi", "neun", " ", "ma", "xeum", "xi", " ", "bo", "xib", "ni", "da">>

\* 16 characters
DraftAdviceA ==
    <<"A", "reul", " ", "seon", "taeg", "ha", "neun", " ", "geos", "xi", " ", "joh", "gess",
      "seub", "ni", "da">>

\* 9 characters
DraftAdviceMove ==
    <<"xi", "jig", "xeul", " ", "chu", "cheon", "hab", "ni", "da">>

SituationInputs == {SitPlain, SitMust}

\* documents safe_json_parse reads from the collaborator's text: a mirroring
\* draft, two drafts that give advice, and the empty object
DocClean == [kind |-> "model", fields |-> <<DraftIssue, DraftMirror>>]
DocAdviceA == [kind |-> "model", fields |-> <<DraftIssue, DraftAdviceA>>]
DocAdviceMove == [kind |-> "model", fields |-> <<DraftIssue, DraftAdviceMove>>]
DocEmpty == [kind |-> "model", fields |-> <<>>]

\* results of call_openai_text for a report request with what
\* safe_json_parse makes of the text: no text, text that does not parse
\* (parsed = NoDoc), text that parses to a document
ReportOutcomes ==
    {NoText}
    \cup [kind : {"text"}, parsed : {NoDoc, DocClean, DocAdviceA, DocAdviceMove, DocEmpty}]

\* generate_final_report_json that returns a violating first draft without
\* the second call
generate_final_report_json_no_retry(sit, goal, opts, coach, first, second) ==
    LET fb == fallback_report_json(sit, goal, opts, coach)
    IN  IF first = NoText
        THEN [data |-> fb, err |-> "call failed", raw |-> NoText, calls |-> 1,
              regenerated |-> FALSE, unverified |-> FALSE]
        ELSE IF first.parsed = NoDoc
        THEN [data |-> fb, err |-> "parse failed", raw |-> first, calls |-> 1,
              regenerated |-> FALSE, unverified |-> FALSE]
        ELSE [data |-> first.parsed, err |-> "", raw |-> first, calls |-> 1,
              regenerated |-> FALSE, unverified |-> FALSE]

\* generate_final_report_json that gives up with an error when the second
\* draft does not remove the forbidden phrasing
generate_final_report_json_gives_up(sit, goal, opts, coach, first, second) ==
    LET fb == fallback_report_json(sit, goal, opts, coach)
    IN  IF first = NoText
        THEN [data |-> fb, err |-> "call failed", raw |-> NoText, calls |-> 1,
              regenerated |-> FALSE, unverified |-> FALSE]
        ELSE IF first.parsed = NoDoc
        THEN [data |-> fb, err |-> "parse failed", raw |-> first, calls |-> 1,
              regenerated |-> FALSE, unverified |-> FALSE]
        ELSE IF contains_forbidden_recommendation(json_dumps(first.parsed))
        THEN IF /\ second.kind = "text"
                /\ second.parsed # NoDoc
                /\ ~contains_forbidden_recommendation(json_dumps(second.parsed))
             THEN [data |-> second.parsed, err |-> "", raw |-> second, calls |-> 2,
                   regenerated |-> TRUE, unverified |-> FALSE]
             ELSE [data |-> NoDoc, err |-> "forbidden phrasing", raw |-> first,
                   calls |-> 2, regenerated |-> TRUE, unverified |-> TRUE]
        ELSE [data |-> first.parsed, err |-> "", raw |-> first, calls |-> 1,
              regenerated |-> FALSE, unverified |-> FALSE]

\* generate_final_report_json without the fallback skeleton: no document
\* when the call fails or the text does not parse
generate_final_report_json_no_fallback(sit, goal, opts, coach, first, second) ==
    IF first = NoText
    THEN [data |-> NoDoc, err |-> "call failed", raw |-> NoText, calls |-> 1,
          regenerated |-> FALSE, unverified |-> FALSE]
    ELSE IF first.parsed = NoDoc
    THEN [data |-> NoDoc, err |-> "parse failed", raw |-> first, calls |-> 1,
          regenerated |-> FALSE, unverified |-> FALSE]
    ELSE IF contains_forbidden_recommendation(json_dumps(first.parsed))
    THEN IF /\ second.kind = "text"
            /\ second.parsed # NoDoc
            /\ ~contains_forbidden_recommendation(json_dumps(second.parsed))
         THEN [data |-> second.parsed, err |-> "", raw |-> second, calls |-> 2,
               regenerated |-> TRUE, unverified |-> FALSE]
         ELSE [data |-> first.parsed, err |-> "", raw |-> first, calls |-> 2,
               regenerated |-> TRUE, unverified |-> TRUE]
    ELSE [data |-> first.parsed, err |-> "", raw |-> first, calls |-> 1,
          regenerated |-> FALSE, unverified |-> FALSE]

\* generate_final_report_json() with the results first and second of its
\* collaborator calls: the document, the error text, the raw text, and, from
\* the debug trace, the number of calls and the two regeneration entries
generate_final_report_json(sit, goal, opts, coach, first, second) ==
    LET fb == fallback_report_json(sit, goal, opts, coach)
    IN  IF first = NoText
        THEN [data |-> fb, err |-> "call failed", raw |-> NoText, calls |-> 1,
              regenerated |-> FALSE, unverified |-> FALSE]
        ELSE IF first.parsed = NoDoc
        THEN [data |-> fb, err |-> "parse failed", raw |-> first, calls |-> 1,
              regenerated |-> FALSE, unverified |-> FALSE]
        ELSE IF contains_forbidden_recommendation(json_dumps(first.parsed))
        THEN IF /\ second.kind = "text"
                /\ second.parsed # NoDoc
                /\ ~contains_forbidden_recommendation(json_dumps(second.parsed))
             THEN [data |-> second.parsed, err |-> "", raw |-> second, calls |-> 2,
                   regenerated |-> TRUE, unverified |-> FALSE]
             ELSE [data |-> first.parsed, err |-> "", raw |-> first, calls |-> 2,
                   regenerated |-> TRUE, unverified |-> TRUE]
        ELSE [data |-> first.parsed, err |-> "", raw |-> first, calls |-> 1,
              regenerated |-> FALSE, unverified |-> FALSE]

-----------------------------------------------------------------------------
(* Pages *)

\* q_idx = max(0, min(q_index, nq - 1)) of render_questions
q_idx == Max(0, Min(q_index, num_questions - 1))

\* the questions page has been rendered for the current slot: its form and
\* its back button exist
Rendered == page = "questions" /\ Len(questions) > q_idx

\* what the form of the current render asks
kind == IF probe_active /\ probe_for_index = q_idx THEN "probe" ELSE "main"
show_q == IF kind = "probe" THEN probe_question ELSE questions[q_idx + 1]

\* the probe state reset that leaves probe_mode
ClearProbe_keeps_mode ==
    /\ probe_active' = FALSE
    /\ probe_question' = None
    /\ probe_for_index' = -1
    /\ probe_mode' = probe_mode

ClearProbe ==
    /\ probe_active' = FALSE
    /\ probe_question' = None
    /\ probe_for_index' = -1
    /\ probe_mode' = ""

ClearReport ==
    /\ final_report_json' = NoDoc
    /\ final_report_raw' = NoText
    /\ report_trace' = NoTrace

\* "next step" of the landing page, pressed with the text txt in the problem
\* box: an empty text only gets a warning
NextStepWith(Probs) ==
    /\ page = "landing"
    /\ \E txt \in Probs :
         /\ user_problem' = txt
         /\ IF strip(txt) = None
            THEN UNCHANGED <<page, situation>>
            ELSE /\ situation' = IF strip(situation) = None THEN strip(txt) ELSE situation
                 /\ page' = "setup_details"
    /\ empty_submitted' = FALSE
    /\ UNCHANGED <<num_questions, coach_id, q_index, answers, probeVars, genVars,
                   reportVars, textVars, summaryVars>>

NextStep == NextStepWith({SitPlain})

\* "previous step" of the setup page
PrevStep ==
    /\ page = "setup_details"
    /\ page' = "landing"
    /\ empty_submitted' = FALSE
    /\ UNCHANGED <<setupVars, q_index, answers, probeVars, genVars, reportVars,
                   textVars, summaryVars>>

\* "start coaching" of the setup page in a session with n questions (slider
\* of the landing page) and coach c (radio of the setup page)
StartWith(n, c) ==
    /\ page = "setup_details"
    /\ num_questions' = n
    /\ coach_id' = c
    /\ q_index' = 0
    /\ questions' = <<>>
    /\ answers' = <<>>
    /\ ClearProbe
    /\ crosscheck_used_for' = {}
    /\ crosscheck_calls' = NoCalls
    /\ generation_calls' = NoCalls
    /\ ClearReport
    /\ page' = "questions"
    /\ empty_submitted' = FALSE
    /\ UNCHANGED <<user_problem, situation, textVars, summaryVars>>

StartCoaching ==
    \E n \in 2..MaxN, c \in COACH_IDS : StartWith(n, c)

\* reset_flow that leaves the situation text of the old session
reset_flow_with_old_situation(to_page, problem) ==
    /\ page' = to_page
    /\ user_problem' = problem
    /\ coach_id' = "logic"
    /\ situation' = situation
    /\ num_questions' = num_questions
    /\ q_index' = 0
    /\ questions' = <<>>
    /\ answers' = <<>>
    /\ ClearProbe
    /\ crosscheck_used_for' = {}
    /\ crosscheck_calls' = NoCalls
    /\ generation_calls' = NoCalls
    /\ ClearReport
    /\ empty_submitted' = FALSE
    /\ UNCHANGED <<textVars, summaryVars>>

\* the body of reset_flow(to_page, keep_problem), problem being the problem
\* text it finds in the session when keep_problem is set, None otherwise
reset_flow_with(to_page, problem) ==
    /\ page' = to_page
    /\ user_problem' = problem
    /\ coach_id' = "logic"
    /\ situation' = strip(problem)
    /\ num_questions' = num_questions
    /\ q_index' = 0
    /\ questions' = <<>>
    /\ answers' = <<>>
    /\ ClearProbe
    /\ crosscheck_used_for' = {}
    /\ crosscheck_calls' = NoCalls
    /\ generation_calls' = NoCalls
    /\ ClearReport
    /\ empty_submitted' = FALSE
    /\ UNCHANGED <<textVars, summaryVars>>

\* reset_flow("landing", keep_problem): "start over" of the sidebar and of
\* the report page drops the problem text, "keep the problem and set up
\* again" of the sidebar (shown after the landing page) keeps it
reset_flow(to_page, keep_problem) ==
    /\ to_page = "landing"
    /\ keep_problem => page # "landing"
    /\ reset_flow_with(to_page, IF keep_problem THEN user_problem ELSE None)

\* "new session from this answer" of the report page: the answer seed becomes
\* the problem text, then reset_flow("setup_details", keep_problem = True)
NewSessionFromAnswer(seed) ==
    /\ page = "report"
    /\ strip(seed) # None
    /\ reset_flow_with("setup_details", strip(seed))

\* RenderQuestions with a next_question that generates the current slot's
\* question again on every request
RenderQuestions_regen(QOut, XOut) ==
    /\ page = "questions"
    /\ \E r \in ensure_question(q_idx, num_questions, coach_id, answers,
                    [questions |-> SubSeq(questions, 1, Min(Len(questions), q_idx)),
                     used |-> crosscheck_used_for,
                     cc |-> crosscheck_calls, gen |-> generation_calls],
                    QOut, XOut) :
        /\ questions' = r.questions
        /\ crosscheck_used_for' = r.used
        /\ crosscheck_calls' = r.cc
        /\ generation_calls' = r.gen
    /\ empty_submitted' = FALSE
    /\ UNCHANGED <<page, setupVars, q_index, answers, probeVars, reportVars,
                   textVars, summaryVars>>

\* a script run of the questions page with no button pressed: next_question
RenderQuestions(QOut, XOut) ==
    /\ page = "questions"
    /\ \E r \in ensure_question(q_idx, num_questions, coach_id, answers,
                    [questions |-> questions, used |-> crosscheck_used_for,
                     cc |-> crosscheck_calls, gen |-> generation_calls],
                    QOut, XOut) :
        /\ questions' = r.questions
        /\ crosscheck_used_for' = r.used
        /\ crosscheck_calls' = r.cc
        /\ generation_calls' = r.gen
    /\ empty_submitted' = FALSE
    /\ UNCHANGED <<page, setupVars, q_index, answers, probeVars, reportVars,
                   textVars, summaryVars>>

\* submit of a non-empty answer to the probe or reframe question
SubmitProbe(a) ==
    /\ answers' = add_answer(answers, show_q, a, "probe", q_idx, probe_mode)
    /\ ClearProbe
    /\ q_index' = Min(q_idx + 1, num_questions - 1)
    /\ UNCHANGED page

\* SubmitMain with the shortness check ahead of the confusion check
SubmitMain_short_first(a, POut) ==
    LET saved == add_answer(answers, show_q, a, "main", q_idx, "")
    IN  /\ answers' = saved
        /\ IF is_too_short_answer(a)
           THEN /\ \E pq \in POut :
                       probe_question' = generate_probe_question(pq)
                /\ probe_active' = TRUE
                /\ probe_for_index' = q_idx
                /\ probe_mode' = "short"
                /\ UNCHANGED <<page, q_index>>
           ELSE IF is_confused_answer(a)
           THEN /\ \E rq \in POut :
                       probe_question' = generate_reframe_question(rq)
                /\ probe_active' = TRUE
                /\ probe_for_index' = q_idx
                /\ probe_mode' = "reframe"
                /\ UNCHANGED <<page, q_index>>
           ELSE /\ IF main_answer_count(saved) >= num_questions
                   THEN page' = "report" /\ q_index' = num_questions - 1
                   ELSE page' = page /\ q_index' = Min(q_idx + 1, num_questions - 1)
                /\ UNCHANGED probeVars

\* SubmitMain whose probe and reframe branches do not end the script run:
\* the normal progress of step 3 follows them
SubmitMain_falls_through(a, POut) ==
    LET saved == add_answer(answers, show_q, a, "main", q_idx, "")
    IN  /\ answers' = saved
        /\ IF is_confused_answer(a)
           THEN /\ \E rq \in POut :
                       probe_question' = generate_reframe_question(rq)
                /\ probe_active' = TRUE
                /\ probe_for_index' = q_idx
                /\ probe_mode' = "reframe"
           ELSE IF is_too_short_answer(a)
           THEN /\ \E pq \in POut :
                       probe_question' = generate_probe_question(pq)
                /\ probe_active' = TRUE
                /\ probe_for_index' = q_idx
                /\ probe_mode' = "short"
           ELSE UNCHANGED probeVars
        /\ IF main_answer_count(saved) >= num_questions
           THEN page' = "report" /\ q_index' = num_questions - 1
           ELSE page' = page /\ q_index' = Min(q_idx + 1, num_questions - 1)

\* SubmitMain in which the action persona takes a short answer as it is
SubmitMain_action_skips_probe(a, POut) ==
    LET saved == add_answer(answers, show_q, a, "main", q_idx, "")
    IN  /\ answers' = saved
        /\ IF is_confused_answer(a)
           THEN /\ \E rq \in POut :
                       probe_question' = generate_reframe_question(rq)
                /\ probe_active' = TRUE
                /\ probe_for_index' = q_idx
                /\ probe_mode' = "reframe"
                /\ UNCHANGED <<page, q_index>>
           ELSE IF is_too_short_answer(a) /\ coach_id # "action"
           THEN /\ \E pq \in POut :
                       probe_question' = generate_probe_question(pq)
                /\ probe_active' = TRUE
                /\ probe_for_index' = q_idx
                /\ probe_mode' = "short"
                /\ UNCHANGED <<page, q_index>>
           ELSE /\ IF main_answer_count(saved) >= num_questions
                   THEN page' = "report" /\ q_index' = num_questions - 1
                   ELSE page' = page /\ q_index' = Min(q_idx + 1, num_questions - 1)
                /\ UNCHANGED probeVars

\* SubmitMain that stays on the questions page after the last slot
SubmitMain_never_finishes(a, POut) ==
    LET saved == add_answer(answers, show_q, a, "main", q_idx, "")
    IN  /\ answers' = saved
        /\ IF is_confused_answer(a)
           THEN /\ \E rq \in POut :
                       probe_question' = generate_reframe_question(rq)
                /\ probe_active' = TRUE
                /\ probe_for_index' = q_idx
                /\ probe_mode' = "reframe"
                /\ UNCHANGED <<page, q_index>>
           ELSE IF is_too_short_answer(a)
           THEN /\ \E pq \in POut :
                       probe_question' = generate_probe_question(pq)
                /\ probe_active' = TRUE
                /\ probe_for_index' = q_idx
                /\ probe_mode' = "short"
                /\ UNCHANGED <<page, q_index>>
           ELSE /\ page' = page
                /\ q_index' = Min(q_idx + 1, num_questions - 1)
                /\ UNCHANGED probeVars

\* submit of a non-empty answer to the main question
SubmitMain(a, POut) ==
    LET saved == add_answer(answers, show_q, a, "main", q_idx, "")
    IN  /\ answers' = saved
        /\ IF is_confused_answer(a)
           THEN /\ \E rq \in POut :
                       probe_question' = generate_reframe_question(rq)
                /\ probe_active' = TRUE
                /\ probe_for_index' = q_idx
                /\ probe_mode' = "reframe"
                /\ UNCHANGED <<page, q_index>>
           ELSE IF is_too_short_answer(a)
           THEN /\ \E pq \in POut :
                       probe_question' = generate_probe_question(pq)
                /\ probe_active' = TRUE
                /\ probe_for_index' = q_idx
                /\ probe_mode' = "short"
                /\ UNCHANGED <<page, q_index>>
           ELSE /\ IF main_answer_count(saved) >= num_questions
                   THEN page' = "report" /\ q_index' = num_questions - 1
                   ELSE page' = page /\ q_index' = Min(q_idx + 1, num_questions - 1)
                /\ UNCHANGED probeVars

\* SubmitAnswer without the strip of the submitted text
SubmitAnswer_no_strip(ans, POut) ==
    /\ Rendered
    /\ LET a == ans
       IN  IF a = None
           THEN UNCHANGED <<page, q_index, answers, probeVars>>
           ELSE /\ Len(answers) < MaxAnswers
                /\ IF kind = "probe" THEN SubmitProbe(a) ELSE SubmitMain(a, POut)
    /\ empty_submitted' = (strip(ans) = None)
    /\ UNCHANGED <<setupVars, genVars, reportVars, textVars, summaryVars>>

\* the answer form is submitted with the text ans
SubmitAnswer(ans, POut) ==
    /\ Rendered
    /\ LET a == strip(ans)
       IN  IF a = None
           THEN UNCHANGED <<page, q_index, answers, probeVars>>
           ELSE /\ Len(answers) < MaxAnswers
                /\ IF kind = "probe" THEN SubmitProbe(a) ELSE SubmitMain(a, POut)
    /\ empty_submitted' = (strip(ans) = None)
    /\ UNCHANGED <<setupVars, genVars, reportVars, textVars, summaryVars>>

\* handle_back that leaves the probe state as it is
handle_back_keeps_probe ==
    /\ Rendered
    /\ ~(q_idx = 0 /\ answers = <<>>)
    /\ IF answers = <<>>
       THEN /\ q_index' = Max(0, q_index - 1)
            /\ answers' = answers
       ELSE LET last == answers[Len(answers)]
            IN  /\ answers' = SubSeq(answers, 1, Len(answers) - 1)
                /\ q_index' = IF last.kind = "probe"
                              THEN last.main_index
                              ELSE Max(0, last.main_index)
    /\ empty_submitted' = FALSE
    /\ UNCHANGED <<page, setupVars, genVars, probeVars, reportVars, textVars, summaryVars>>

\* handle_back that also drops the questions from the slot it rewinds to
handle_back_drops_questions ==
    /\ Rendered
    /\ ~(q_idx = 0 /\ answers = <<>>)
    /\ IF answers = <<>>
       THEN /\ q_index' = Max(0, q_index - 1)
            /\ answers' = answers
       ELSE LET last == answers[Len(answers)]
            IN  /\ answers' = SubSeq(answers, 1, Len(answers) - 1)
                /\ q_index' = IF last.kind = "probe"
                              THEN last.main_index
                              ELSE Max(0, last.main_index)
    /\ questions' = SubSeq(questions, 1, Min(Len(questions), q_index'))
    /\ ClearProbe
    /\ empty_submitted' = FALSE
    /\ UNCHANGED <<page, setupVars, crosscheck_used_for, crosscheck_calls,
                   generation_calls, reportVars, textVars, summaryVars>>

\* handle_back that always goes one slot back
handle_back_one_slot_back ==
    /\ Rendered
    /\ ~(q_idx = 0 /\ answers = <<>>)
    /\ IF answers = <<>>
       THEN /\ q_index' = Max(0, q_index - 1)
            /\ answers' = answers
       ELSE LET last == answers[Len(answers)]
            IN  /\ answers' = SubSeq(answers, 1, Len(answers) - 1)
                /\ q_index' = Max(0, q_index - 1)
    /\ ClearProbe
    /\ empty_submitted' = FALSE
    /\ UNCHANGED <<page, setupVars, genVars, reportVars, textVars, summaryVars>>

\* the back button of the questions page (disabled on slot 0 with no answers)
handle_back ==
    /\ Rendered
    /\ ~(q_idx = 0 /\ answers = <<>>)
    /\ IF answers = <<>>
       THEN /\ q_index' = Max(0, q_index - 1)
            /\ answers' = answers
       ELSE LET last == answers[Len(answers)]
            IN  /\ answers' = SubSeq(answers, 1, Len(answers) - 1)
                /\ q_index' = IF last.kind = "probe"
                              THEN last.main_index
                              ELSE Max(0, last.main_index)
    /\ ClearProbe
    /\ empty_submitted' = FALSE
    /\ UNCHANGED <<page, setupVars, genVars, reportVars, textVars, summaryVars>>

\* the warning of the report page about advice-like wording
report_warning ==
    /\ final_report_json # NoDoc
    /\ final_report_json.fields # <<>>
    /\ contains_forbidden_recommendation(json_dumps(final_report_json))

\* a script run of the report page; gen: the refresh button of an earlier
\* render was pressed.  The second result is read only when the second call
\* is made, so it is NoText otherwise.  The session's goal and options are
\* left empty.
RenderReport(gen, ROut) ==
    /\ page = "report"
    /\ main_answer_count(answers) >= num_questions
    /\ gen => final_report_json # NoDoc
    /\ IF gen \/ (final_report_json = NoDoc /\ final_report_raw = NoText)
       THEN \E first \in ROut, second \in ROut :
              LET r == generate_final_report_json(situation, None, <<>>, coach_id,
                                                 first, second)
              IN  /\ r.calls = 1 => second = NoText
                  /\ final_report_json' = r.data
                  /\ final_report_raw' = r.raw
                  /\ report_trace' =
                        [calls |-> r.calls, situation |-> situation,
                         first |-> first, second |-> second, err |-> r.err,
                         regenerated |-> r.regenerated,
                         unverified |-> r.unverified]
       ELSE UNCHANGED reportVars
    /\ empty_submitted' = FALSE
    /\ UNCHANGED <<page, setupVars, q_index, answers, probeVars, genVars,
                   textVars, summaryVars>>

\* The interview with every kind of answer.  Every question-generation and
\* conflict-check call of the collaborator fails here, so the main questions
\* are the fallback questions; the probe and reframe calls succeed or fail.
Next ==
    \/ NextStep
    \/ PrevStep
    \/ StartCoaching
    \/ \E keep_problem \in BOOLEAN : reset_flow("landing", keep_problem)
    \/ NewSessionFromAnswer(SitPlain)
    \/ RenderQuestions({None}, {[kind |-> "fail"]})
    \/ \E ans \in AnswerInputs : SubmitAnswer(ans, ProbeOutcomes)
    \/ handle_back

Spec == Init /\ [][Next]_vars

\* The interview with every result of the collaborator on the question path;
\* the answers are one acceptable and one short text.
NextGen ==
    \/ NextStep
    \/ PrevStep
    \/ StartCoaching
    \/ \E keep_problem \in BOOLEAN : reset_flow("landing", keep_problem)
    \/ NewSessionFromAnswer(SitPlain)
    \/ RenderQuestions(QuestionOutcomes, CrossOutcomes)
    \/ \E ans \in {AnsClear, AnsBrief} : SubmitAnswer(ans, {None})
    \/ handle_back

SpecGen == Init /\ [][NextGen]_vars

\* Sessions that reach the report: every answer acceptable, every question a
\* fallback question, every result of the report calls.
NextReport ==
    \/ NextStepWith(SituationInputs)
    \/ PrevStep
    \/ StartCoaching
    \/ \E keep_problem \in BOOLEAN : reset_flow("landing", keep_problem)
    \/ NewSessionFromAnswer(SitPlain)
    \/ RenderQuestions({None}, {[kind |-> "fail"]})
    \/ SubmitAnswer(AnsClear, {None})
    \/ handle_back
    \/ \E gen \in BOOLEAN : RenderReport(gen, ReportOutcomes)

SpecReport == Init /\ [][NextReport]_vars

(* History Summarizer (Summary Buffer).  The summarizer is not part of     *)
(* src/app.py; it is modelled from the specification's section 4.3.       *)

\* an acceptable answer of two sentences
AnsTwoSentences == AnsClear \o <<".", " ">> \o AnsDenseLong

\* what the generative collaborator returns for a summary request: no text,
\* a list within the bound, a list beyond the bound
GenSummaryShort == <<"-", " ">> \o SitPlain
GenSummaryLong == <<"-", " ">> \o SitPlain \o <<"\n", "-", " ">> \o AnsClear
SummaryOutcomes == {None, GenSummaryShort, GenSummaryLong}

\* the extractive summarizer keeps at most this many characters of an answer
EXTRACT_CHARS == 60

SentenceEnd == {".", "?", "!"}

\* the first sentence of an answer, or its first EXTRACT_CHARS characters
first_sentence(a) ==
    LET ends == {i \in 1..Len(a) : a[i] \in SentenceEnd}
        stop == IF ends = {} THEN Len(a)
                ELSE CHOOSE i \in ends : \A j \in ends : i <= j
    IN  Prefix(SubSeq(a, 1, stop), EXTRACT_CHARS)

\* the texts of the main answers after the first n of them
RECURSIVE unfolded(_, _)
unfolded(ans, n) ==
    IF ans = <<>> THEN <<>>
    ELSE IF Head(ans).kind # "main" THEN unfolded(Tail(ans), n)
    ELSE IF n > 0 THEN unfolded(Tail(ans), n - 1)
    ELSE <<Head(ans).a>> \o unfolded(Tail(ans), 0)

\* one bullet per answer, appended to the summary
RECURSIVE extractive(_, _)
extractive(summary, texts) ==
    IF texts = <<>> THEN summary
    ELSE LET bullet == <<"-", " ">> \o first_sentence(Head(texts))
             joined == IF summary = <<>> THEN bullet ELSE summary \o <<"\n">> \o bullet
         IN  extractive(joined, Tail(texts))

\* variant: the extractive path appends without truncating
summarize_appends_untruncated(summary, count, ans, out) ==
    LET n == main_answer_count(ans)
    IN  IF n < SummaryCadence \/ n - count < SummaryCadence
        THEN [text |-> summary, count |-> count, path |-> "none"]
        ELSE IF out = None
        THEN [text |-> extractive(summary, unfolded(ans, count)),
              count |-> n, path |-> "extractive"]
        ELSE [text |-> Prefix(out, MaxSummaryChars), count |-> n, path |-> "generative"]

\* the Summarizer, invoked after an accepted main answer: out is the
\* collaborator's text, None when the call failed
summarize(summary, count, ans, out) ==
    LET n == main_answer_count(ans)
    IN  IF n < SummaryCadence \/ n - count < SummaryCadence
        THEN [text |-> summary, count |-> count, path |-> "none"]
        ELSE IF out = None
        THEN [text |-> Prefix(extractive(summary, unfolded(ans, count)), MaxSummaryChars),
              count |-> n, path |-> "extractive"]
        ELSE [text |-> Prefix(out, MaxSummaryChars), count |-> n, path |-> "generative"]

\* the answer form is submitted in a session that keeps a Summary Buffer: an
\* accepted main answer triggers the Summarizer
SubmitAndSummarize(ans, POut, SOut) ==
    /\ Rendered
    /\ LET a == strip(ans)
       IN  IF a = None
           THEN UNCHANGED <<page, q_index, answers, probeVars, summaryVars>>
           ELSE /\ Len(answers) < MaxAnswers
                /\ IF kind = "probe"
                   THEN SubmitProbe(a) /\ UNCHANGED summaryVars
                   ELSE /\ SubmitMain(a, POut)
                        /\ IF is_confused_answer(a) \/ is_too_short_answer(a)
                           THEN UNCHANGED summaryVars
                           ELSE \E out \in SOut :
                                  LET r == summarize(summary_text, summarized_count,
                                                     answers', out)
                                  IN  /\ summary_text' = r.text
                                      /\ summarized_count' = r.count
    /\ empty_submitted' = (strip(ans) = None)
    /\ UNCHANGED <<setupVars, genVars, reportVars, textVars>>

\* Sessions with a Summary Buffer: MaxSeqN questions, acceptable answers,
\* the question calls fail, the summary call fails or returns a list.
NextSummary ==
    \/ NextStep
    \/ StartWith(MaxSeqN, "logic")
    \/ RenderQuestions({None}, {[kind |-> "fail"]})
    \/ \E ans \in {AnsClear, AnsTwoSentences} :
            SubmitAndSummarize(ans, {None}, SummaryOutcomes)
    \/ handle_back

SpecSummary == Init /\ [][NextSummary]_vars

-----------------------------------------------------------------------------
(* The text functions on their own *)

\* is_similar applied to the two texts
ApplySimilar ==
    /\ text_result' = [op |-> "is_similar", value |-> is_similar(text_a, text_b)]
    /\ UNCHANGED <<page, setupVars, q_index, answers, probeVars, genVars,
                   empty_submitted, reportVars, text_a, text_b, summaryVars>>

\* is_confused_answer applied to the first text
ApplyConfused ==
    /\ text_result' = [op |-> "is_confused_answer", value |-> is_confused_answer(text_a)]
    /\ UNCHANGED <<page, setupVars, q_index, answers, probeVars, genVars,
                   empty_submitted, reportVars, text_a, text_b, summaryVars>>

\* the question count slider of the landing and setup pages
MIN_QUESTIONS == 2
MAX_QUESTIONS == 10

\* instruction_for_question(i, n, coach_id): the purpose the generation
\* prompt states for the question of slot i of n, each instruction text under
\* a name of its own
instruction_for_question(i, n, coach) ==
    IF i = 0 THEN "core_issue"
    ELSE IF i = 1 THEN "measurable_goal"
    ELSE IF coach = "action" THEN
        IF i = n - 1 THEN "action_smallest_action_in_5_minutes"
        ELSE IF i = 2 THEN "action_top3"
        ELSE IF n >= 6 /\ i = 3 THEN "action_split_top1"
        ELSE IF (n = 5 /\ i = 3) \/ (n >= 6 /\ i = n - 2) THEN "action_premortem"
        ELSE IF n >= 6 /\ i = 4 THEN "action_if_then"
        ELSE "action_next_action"
    ELSE IF coach = "logic" THEN
        IF n >= 5 /\ i = n - 2 THEN "logic_reverse"
        ELSE IF i = 2 THEN "logic_criteria"
        ELSE IF i = n - 1 THEN "logic_rank_criteria_1_to_3"
        ELSE IF i = n - 2 /\ n < 5 THEN "logic_uncertain"
        ELSE "logic_separate"
    ELSE IF coach = "value" THEN
        IF i = 2 THEN "value_emotion"
        ELSE IF i = 3 /\ n >= 5 THEN "value_emotion_or_value"
        ELSE IF i = n - 2 THEN "value_regret"
        ELSE IF i = n - 1 THEN "value_own_standard_in_one_sentence"
        ELSE "value_top3"
    ELSE "generic"

\* the purpose a question of the fallback bank asks for, under the names of
\* instruction_for_question
fallback_purpose(q) ==
    CASE q = FQ_First -> "core_issue"
      [] q = FQ_Second -> "measurable_goal"
      [] q = FQ_ActionLast -> "action_smallest_action_in_5_minutes"
      [] q = FQ_ActionTop3 -> "action_top3"
      [] q = FQ_ActionPremortem -> "action_premortem"
      [] q = FQ_ActionSplit -> "action_split_top1"
      [] q = FQ_ActionIfThen -> "action_if_then"
      [] q = FQ_ActionDefault -> "action_next_action"
      [] q = FQ_LogicReverse -> "logic_reverse"
      [] q = FQ_LogicCriteria -> "logic_criteria"
      [] q = FQ_LogicLast -> "logic_rank_criteria_1_to_3"
      [] q = FQ_LogicUncertain -> "logic_uncertain"
      [] q = FQ_LogicDefault -> "logic_separate"
      [] q = FQ_ValueEmotion -> "value_emotion"
      [] q = FQ_ValueSeparate -> "value_emotion_or_value"
      [] q = FQ_ValueRegret -> "value_regret"
      [] q = FQ_ValueDefault -> "value_top3"
      [] OTHER -> "generic"

\* the two question tables applied to a persona, a question count and a slot
ApplyTables ==
    /\ text_result.op = "slot"
    /\ text_result' =
          [op |-> "purpose", coach |-> text_result.coach, n |-> text_result.n,
           i |-> text_result.i,
           instruction |-> instruction_for_question(text_result.i, text_result.n,
                                                    text_result.coach),
           fallback |-> fallback_question(text_result.coach, text_result.i,
                                          text_result.n)]
    /\ UNCHANGED <<page, setupVars, q_index, answers, probeVars, genVars,
                   empty_submitted, reportVars, text_a, text_b, summaryVars>>

\* The question tables on every persona, question count and slot.
InitTables ==
    /\ init_state
    /\ init_summary
    /\ text_a = None
    /\ text_b = None
    /\ text_result \in {[op |-> "slot", coach |-> c, n |-> n, i |-> i] :
                           c \in COACH_IDS, n \in MIN_QUESTIONS..MAX_QUESTIONS,
                           i \in 0..(MAX_QUESTIONS - 1)}
    /\ text_result.i < text_result.n

NextTables == ApplyTables

SpecTables == InitTables /\ [][NextTables]_vars

\* The text functions on every pair of TextInputs.
InitText ==
    /\ init_state
    /\ init_summary
    /\ text_a \in TextInputs
    /\ text_b \in TextInputs
    /\ text_result = NoResult

NextText ==
    \/ ApplySimilar
    \/ ApplyConfused

SpecText == InitText /\ [][NextText]_vars

\* Long sessions: up to MaxSeqN questions, every answer acceptable, the
\* question-generation call fails or returns a question.
StartLong ==
    \E n \in 2..MaxSeqN, c \in COACH_IDS : StartWith(n, c)

NextSeq ==
    \/ NextStep
    \/ PrevStep
    \/ StartLong
    \/ \E keep_problem \in BOOLEAN : reset_flow("landing", keep_problem)
    \/ NewSessionFromAnswer(SitPlain)
    \/ RenderQuestions({None, CollabQ1}, {[kind |-> "fail"]})
    \/ SubmitAnswer(AnsClear, {None})
    \/ handle_back

SpecSeq == Init /\ [][NextSeq]_vars

-----------------------------------------------------------------------------
(* Properties of the interview *)

MainRecords(s) == {k \in 1..Len(answers) : answers[k].kind = "main" /\ answers[k].main_index = s}
ProbeRecords(s) == {k \in 1..Len(answers) : answers[k].kind = "probe" /\ answers[k].main_index = s}
LastAnswer == answers[Len(answers)]

\* C1: every slot the interview has advanced past (s < q_index) has exactly
\* one main AnswerRecord.
C1_OneMainPerPassedSlot ==
    \A s \in 0..(q_index - 1) : Cardinality(MainRecords(s)) = 1

\* C2: the report page is entered only with a main AnswerRecord for every
\* slot 0..N-1.
C2_ReportOnlyWhenAllSlotsAnswered ==
    page = "report" => \A s \in 0..(num_questions - 1) : MainRecords(s) # {}

\* C3: the answers list holds at most one probe record per main_index.
C3_AtMostOneProbePerSlot ==
    \A s \in Slots : Cardinality(ProbeRecords(s)) <= 1

\* a step that submits a non-empty answer to the probe or reframe question
ProbeSubmitted ==
    /\ Rendered
    /\ kind = "probe"
    /\ Len(answers') = Len(answers) + 1

\* C4: a non-empty answer to the probe/reframe question of slot s is appended
\* as a probe record of slot s with the probe mode as subkind, the probe
\* state is cleared, and the session moves past slot s: to slot s + 1, or to
\* the report when s is the last slot.
C4_ProbeAnswerAdvances ==
    [][ProbeSubmitted =>
          /\ answers' = Append(answers, answers'[Len(answers')])
          /\ answers'[Len(answers')].kind = "probe"
          /\ answers'[Len(answers')].main_index = q_index
          /\ answers'[Len(answers')].subkind = probe_mode
          /\ ~probe_active' /\ probe_question' = None
          /\ probe_for_index' = -1 /\ probe_mode' = ""
          /\ IF q_index = num_questions - 1
             THEN page' = "report"
             ELSE page' = page /\ q_index' = q_index + 1]_vars


\* a step that submits a non-empty answer to the main question
MainSubmitted ==
    /\ Rendered
    /\ kind = "main"
    /\ Len(answers') = Len(answers) + 1

\* the answer text the step has saved
SubmittedText == answers'[Len(answers')].a

\* C5: a submitted main answer that is both confused and too short gets a
\* reframe question (probe_mode = reframe), never a probe; a probe
\* (probe_mode = short) is issued only for a too short, not confused answer.
C5_ConfusedBeforeShort ==
    [][MainSubmitted =>
          /\ (is_confused_answer(SubmittedText) /\ is_too_short_answer(SubmittedText)
                => probe_active' /\ probe_mode' = "reframe")
          /\ (probe_active' /\ probe_mode' = "short"
                => is_too_short_answer(SubmittedText)
                   /\ ~is_confused_answer(SubmittedText))]_vars

\* a reframe question is active for an answer both confused and too short
C5_Witness ==
    /\ probe_active
    /\ probe_mode = "reframe"
    /\ answers # <<>>
    /\ is_confused_answer(LastAnswer.a)
    /\ is_too_short_answer(LastAnswer.a)

\* the answer is classified as confused or as too short
PoorAnswer(a) == is_confused_answer(a) \/ is_too_short_answer(a)

C7_EmptySubmitChangesNothing ==
    [][empty_submitted' =>
          UNCHANGED <<answers, q_index, probeVars, questions,
                      crosscheck_used_for, page>>]_vars

\* an empty answer was submitted to a probe or reframe question
C7_Witness ==
    /\ empty_submitted
    /\ probe_active
    /\ probe_for_index = q_index

\* a step of the back button that removes a record
BackStep ==
    /\ Rendered
    /\ page' = page
    /\ Len(answers') < Len(answers)

\* C8: go back removes exactly the last AnswerRecord, clears the probe state
\* and sets q_index to the removed record's main_index; the questions list is
\* untouched, so the slot shows the main question it showed before.
C8_BackPopsLastRecord ==
    [][BackStep =>
          LET last == answers[Len(answers)]
          IN  /\ answers' = SubSeq(answers, 1, Len(answers) - 1)
              /\ ~probe_active' /\ probe_question' = None
              /\ probe_for_index' = -1 /\ probe_mode' = ""
              /\ q_index' = last.main_index
              /\ questions' = questions
              /\ Len(questions') > q_index'
              /\ last.kind = "main" => questions'[q_index' + 1] = last.q
              /\ last.kind = "probe" =>
                    /\ answers' # <<>>
                    /\ answers'[Len(answers')].kind = "main"
                    /\ answers'[Len(answers')].main_index = q_index'
                    /\ answers'[Len(answers')].q = questions'[q_index' + 1]]_vars

\* the questions page after a main record was popped: the question of a
\* later slot is still in the list
C8_Witness ==
    /\ page = "questions"
    /\ ~probe_active
    /\ Len(questions) > q_index + 1
    /\ MainRecords(q_index) = {}

\* a step inside one session: the questions page is not left by a reset
SessionContinues ==
    /\ page = "questions"
    /\ page' \in {"questions", "report"}

\* C9: next_question for a slot whose question exists returns it with no
\* generation and no collaborator call, and within a session a generated
\* question is never replaced and its slot's calls never grow, go back
\* included.
C9_NextQuestionIdempotent ==
    /\ [](Rendered =>
            LET g == [questions |-> questions, used |-> crosscheck_used_for,
                      cc |-> crosscheck_calls, gen |-> generation_calls]
            IN  ensure_question(q_idx, num_questions, coach_id, answers, g,
                                QuestionOutcomes, CrossOutcomes) = {g})
    /\ [][SessionContinues =>
            \A k \in 1..Len(questions) :
                /\ Len(questions') >= k
                /\ questions'[k] = questions[k]
                /\ generation_calls'[k - 1] = generation_calls[k - 1]
                /\ crosscheck_calls'[k - 1] = crosscheck_calls[k - 1]]_vars

\* after go back, the slot shows a question the collaborator generated
C9_Witness ==
    /\ Rendered
    /\ Len(questions) > q_index + 1
    /\ generation_calls[q_index] >= 1
    /\ questions[q_index + 1] \in {normalize(CollabQ1), normalize(CollabQ2)}

\* C10: in a session the conflict detector calls the collaborator at most
\* once for each slot index.
C10_CrosscheckOncePerSlot ==
    \A s \in Slots : crosscheck_calls[s] <= 1

\* the conflict check of a slot has failed and the session has gone back
\* before that slot
C10_Witness ==
    \E s \in Slots :
        /\ crosscheck_calls[s] = 1
        /\ s \notin crosscheck_used_for
        /\ q_index < s
        /\ page = "questions"


\* C11: no two distinct slots of a session hold similar main questions.
C11_NoSimilarQuestions ==
    \A i, j \in 1..Len(questions) :
        i # j => ~is_similar(questions[i], questions[j])


\* the first draft of the last report call parsed and matched a forbidden
\* pattern
FirstDraftViolates ==
    /\ report_trace.calls > 0
    /\ report_trace.first # NoText
    /\ report_trace.first.parsed # NoDoc
    /\ contains_forbidden_recommendation(json_dumps(report_trace.first.parsed))

\* the first draft of the last report call parsed and matched no pattern
FirstDraftClean ==
    /\ report_trace.calls > 0
    /\ report_trace.first # NoText
    /\ report_trace.first.parsed # NoDoc
    /\ ~contains_forbidden_recommendation(json_dumps(report_trace.first.parsed))

\* C12: generate_report makes exactly one more collaborator call when the
\* first parsed draft contains a forbidden phrase, none when it is clean, and
\* never more than two calls.
C12_OneRegeneration ==
    /\ report_trace.calls <= 2
    /\ FirstDraftViolates => report_trace.calls = 2 /\ report_trace.regenerated
    /\ FirstDraftClean => report_trace.calls = 1 /\ ~report_trace.regenerated

\* a report whose first draft gave advice and whose second draft is shown
C12_Witness ==
    /\ FirstDraftViolates
    /\ report_trace.calls = 2
    /\ final_report_json = DocClean


\* the forbidden phrasing of the first draft is still there after the one
\* regeneration: the second draft is missing, does not parse, or violates too
ViolationPersists ==
    /\ FirstDraftViolates
    /\ \/ report_trace.second = NoText
       \/ report_trace.second.parsed = NoDoc
       \/ contains_forbidden_recommendation(json_dumps(report_trace.second.parsed))

\* C13: when the violation persists after the one regeneration, generate_report
\* returns the document with no error, marks the result as unverified, and the
\* report page shows its warning.
C13_PersistentViolationIsFlagged ==
    ViolationPersists =>
        /\ final_report_json = report_trace.first.parsed
        /\ report_trace.err = ""
        /\ report_trace.unverified
        /\ report_warning

\* both drafts of the last report call gave advice
C13_Witness ==
    /\ ViolationPersists
    /\ report_trace.first.parsed = DocAdviceA
    /\ report_trace.second # NoText
    /\ report_trace.second.parsed = DocAdviceMove
    /\ final_report_json = DocAdviceA

\* C14: for every collaborator outcome generate_report returns a document;
\* it is the fallback skeleton when the first call returns no text or text
\* that does not parse.
C14_ReportNeverEmpty ==
    report_trace.calls > 0 =>
        /\ final_report_json # NoDoc
        /\ (report_trace.first = NoText \/ report_trace.first.parsed = NoDoc)
              => final_report_json =
                    fallback_report_json(report_trace.situation, None, <<>>, coach_id)

\* the fallback skeleton is shown after a text that did not parse
C14_Witness ==
    /\ report_trace.calls > 0
    /\ report_trace.first # NoText
    /\ report_trace.first.parsed = NoDoc
    /\ final_report_json # NoDoc
    /\ final_report_json.kind = "fallback"

\* C15: every document generate_report returns either matches no forbidden
\* pattern, or went through exactly one regeneration attempt and is flagged.
C15_ReportCleanOrFlagged ==
    report_trace.calls > 0 =>
        \/ /\ final_report_json # NoDoc
           /\ ~contains_forbidden_recommendation(json_dumps(final_report_json))
        \/ /\ report_trace.calls = 2
           /\ report_trace.regenerated
           /\ report_trace.unverified


\* the text names a confusion keyword
HasConfusedKeyword(a) ==
    \E pat \in CONFUSED_ANSWER_PATTERNS : re_search(pat, strip(a))

\* C16: is_confused is never true for an answer that has a confusion keyword
\* and at least 2 information-density signals, answers that begin with a
\* refusal pattern or are shorter than the minimum length included.
C16_DenseAnswerNotConfused ==
    (/\ text_result.op = "is_confused_answer"
     /\ HasConfusedKeyword(text_a)
     /\ signals(normalize(text_a)) >= 2)
        => text_result.value = FALSE

\* C17: is_similar(a, b) = is_similar(b, a).
C17_SimilarSymmetric ==
    text_result.op = "is_similar"
        => text_result.value = is_similar(text_b, text_a)

\* two texts similar by token overlap only: neither contains the other and
\* their token sets differ in size
C17_Witness ==
    /\ text_result.op = "is_similar"
    /\ text_result.value = TRUE
    /\ ~Contains(normalize(text_a), normalize(text_b))
    /\ ~Contains(normalize(text_b), normalize(text_a))
    /\ Cardinality(toks(text_a)) < Cardinality(toks(text_b))

\* C18: is_similar(a, a) is true for every non-empty string a, strings of
\* whitespace only included.
C18_SimilarReflexive ==
    (/\ text_result.op = "is_similar"
     /\ text_a = text_b
     /\ text_a # None)
        => text_result.value = TRUE


\* C19: after every accepted main answer the Summary Buffer's summary_text
\* is within its size bound, on the generative path and on the extractive
\* fallback path.
C19_SummaryWithinBound ==
    Len(summary_text) <= MaxSummaryChars

\* two folds have happened and the last, extractive one filled the buffer to
\* its bound
C19_Witness ==
    /\ summarized_count >= 2 * SummaryCadence
    /\ Len(summary_text) = MaxSummaryChars
    /\ summary_text # Prefix(GenSummaryLong, MaxSummaryChars)


-----------------------------------------------------------------------------
(* Persona independence of the state machine *)

\* the part of the session the persona must not influence: the page, the
\* slot, the probe state and the kinds and slots of the answer records
RecordView(r) == [kind |-> r.kind, subkind |-> r.subkind, main_index |-> r.main_index]

ControlView ==
    [page |-> page, num_questions |-> num_questions, q_index |-> q_index,
     probe_active |-> probe_active, probe_for_index |-> probe_for_index,
     probe_mode |-> probe_mode,
     records |-> [k \in 1..Len(answers) |-> RecordView(answers[k])]]

view_q_idx(v) == Max(0, Min(v.q_index, v.num_questions - 1))

view_kind(v) ==
    IF v.probe_active /\ v.probe_for_index = view_q_idx(v) THEN "probe" ELSE "main"

view_main_count(recs) ==
    Cardinality({k \in 1..Len(recs) : recs[k].kind = "main"})

view_clear_probe(v) ==
    [v EXCEPT !.probe_active = FALSE, !.probe_for_index = -1, !.probe_mode = ""]

\* what the submit of the text ans does to the control view, computed from
\* the view and the text alone
SubmitView(v, ans) ==
    LET a == strip(ans)
        q == view_q_idx(v)
        n == v.num_questions
    IN  IF a = None THEN v
        ELSE IF view_kind(v) = "probe"
        THEN [view_clear_probe(v) EXCEPT
                !.records = Append(v.records,
                                   [kind |-> "probe", subkind |-> v.probe_mode,
                                    main_index |-> q]),
                !.q_index = Min(q + 1, n - 1)]
        ELSE LET saved == Append(v.records,
                                 [kind |-> "main", subkind |-> "", main_index |-> q])
             IN  IF is_confused_answer(a)
                 THEN [v EXCEPT !.records = saved, !.probe_active = TRUE,
                                !.probe_for_index = q, !.probe_mode = "reframe"]
                 ELSE IF is_too_short_answer(a)
                 THEN [v EXCEPT !.records = saved, !.probe_active = TRUE,
                                !.probe_for_index = q, !.probe_mode = "short"]
                 ELSE IF view_main_count(saved) >= n
                 THEN [v EXCEPT !.records = saved, !.page = "report", !.q_index = n - 1]
                 ELSE [v EXCEPT !.records = saved, !.q_index = Min(q + 1, n - 1)]

\* what the back button does to the control view
BackView(v) ==
    IF v.records = <<>>
    THEN [view_clear_probe(v) EXCEPT !.q_index = Max(0, v.q_index - 1)]
    ELSE LET last == v.records[Len(v.records)]
         IN  [view_clear_probe(v) EXCEPT
                !.records = SubSeq(v.records, 1, Len(v.records) - 1),
                !.q_index = IF last.kind = "probe" THEN last.main_index
                            ELSE Max(0, last.main_index)]

\* what "start coaching" with n questions does to the control view
StartView(v, n) ==
    [view_clear_probe(v) EXCEPT !.page = "questions", !.num_questions = n,
                                !.q_index = 0, !.records = <<>>]

\* what reset_flow(to_page) does to the control view
ResetView(v, to_page) ==
    [view_clear_probe(v) EXCEPT !.page = to_page, !.q_index = 0, !.records = <<>>]

\* The interview of every persona: an acceptable, a short and a confused
\* answer; the question calls fail, the probe call fails or returns a question.
PersonaAnswers == {AnsClear, AnsBrief, AnsUnsure}

NextPersona ==
    \/ NextStep
    \/ StartCoaching
    \/ \E keep_problem \in BOOLEAN : reset_flow("landing", keep_problem)
    \/ NewSessionFromAnswer(SitPlain)
    \/ RenderQuestions({None}, {[kind |-> "fail"]})
    \/ \E ans \in PersonaAnswers : SubmitAnswer(ans, {None, CollabProbeQ})
    \/ handle_back

SpecPersona == Init /\ [][NextPersona]_vars

\* C20: the persona does not influence the state machine.  Every operation
\* changes the control view (page, q_index, probe state, kinds and
\* main_index of the answer records) to a value computed from the control
\* view, the operation and the submitted text alone, whatever the persona,
\* the question texts and the collaborator's outcomes are; two sessions that
\* differ only in the persona therefore pass through the same control views.
C20_PersonaDoesNotSteer ==
    [][/\ \A ans \in PersonaAnswers :
            SubmitAnswer(ans, {None, CollabProbeQ})
                => ControlView' = SubmitView(ControlView, ans)
       /\ handle_back => ControlView' = BackView(ControlView)
       /\ \A n \in 2..MaxN, c \in COACH_IDS :
            StartWith(n, c) => ControlView' = StartView(ControlView, n)
       /\ \A keep_problem \in BOOLEAN :
            reset_flow("landing", keep_problem)
                => ControlView' = ResetView(ControlView, "landing")
       /\ NewSessionFromAnswer(SitPlain)
            => ControlView' = ResetView(ControlView, "setup_details")
       /\ NextStep => ControlView' = [ControlView EXCEPT !.page = "setup_details"]
       /\ RenderQuestions({None}, {[kind |-> "fail"]})
            => ControlView' = ControlView
      ]_vars

\* a session of a persona other than the default one, asked a question that
\* the default persona would not have been asked, is on a probe of a later
\* slot
C20_Witness ==
    /\ coach_id # "logic"
    /\ Rendered
    /\ q_index >= 1
    /\ probe_active
    /\ questions[q_idx + 1] # fallback_question("logic", q_idx, num_questions)


-----------------------------------------------------------------------------
(* Properties of starting over and of the question sequencer *)

\* the interview after a reset: first slot, no answers, no questions, probe
\* state inactive and cleared, no slot checked for conflicts, no report
InterviewCleared ==
    /\ q_index' = 0
    /\ answers' = <<>>
    /\ questions' = <<>>
    /\ probe_active' = FALSE
    /\ probe_question' = None
    /\ probe_for_index' = -1
    /\ probe_mode' = ""
    /\ crosscheck_used_for' = {}
    /\ final_report_json' = NoDoc

\* C21: starting over resets the interview.  After reset_flow, from any
\* state, the interview is cleared and the question count N is as before;
\* with keep_problem the problem text is kept and is the new session's
\* situation text.  The start-coaching action clears the interview too.
C21_StartOverResets ==
    [][/\ \A keep_problem \in BOOLEAN :
            reset_flow("landing", keep_problem)
                => /\ InterviewCleared
                   /\ num_questions' = num_questions
                   /\ keep_problem => /\ user_problem' = user_problem
                                      /\ situation' = strip(user_problem)
       /\ NewSessionFromAnswer(SitPlain)
            => /\ InterviewCleared
               /\ num_questions' = num_questions
               /\ user_problem' = SitPlain
               /\ situation' = SitPlain
       /\ StartCoaching => InterviewCleared
      ]_vars

\* a session that was started and reset with its problem text kept: the
\* question count is the one chosen for the session and the problem text is
\* the situation text
C21_Witness ==
    /\ page = "landing"
    /\ num_questions # 5
    /\ answers = <<>>
    /\ user_problem = SitMust
    /\ situation = SitMust


\* C22: once the conflict detector has called the collaborator for slot i,
\* slot i is in crosscheck_used_for, whatever the call returned.
C22_CheckedSlotIsMarked ==
    \A s \in Slots : crosscheck_calls[s] >= 1 => s \in crosscheck_used_for

\* C23: the conflict detector calls the collaborator only when at least 2
\* main records exist and before any ordinary generation call for the slot:
\* a conflict call is made for a slot with no generation call so far and with
\* 2 main records or more; with fewer than 2 main records no conflict call is
\* made and no slot is marked; and a generation call for an unmarked slot
\* with 2 main records comes with the slot's conflict call.
C23_ConflictCallFirstAndAfterTwoAnswers ==
    [][\A s \in Slots :
        /\ crosscheck_calls'[s] > crosscheck_calls[s]
            => /\ main_answer_count(answers) >= 2
               /\ generation_calls[s] = 0
        /\ (page' = "questions" /\ page = "questions" /\ main_answer_count(answers) < 2)
            => /\ crosscheck_calls'[s] = crosscheck_calls[s]
               /\ crosscheck_used_for' = crosscheck_used_for
        /\ (/\ generation_calls'[s] > generation_calls[s]
            /\ main_answer_count(answers) >= 2
            /\ s \notin crosscheck_used_for)
            => crosscheck_calls'[s] > crosscheck_calls[s]
      ]_vars

\* a slot's question came from the ordinary path after its conflict call, and
\* another slot's question was generated with fewer than 2 main records
C23_Witness ==
    \E s \in Slots :
        /\ crosscheck_calls[s] = 1
        /\ generation_calls[s] >= 1
        /\ crosscheck_calls[0] = 0
        /\ generation_calls[0] >= 1

\* the slot whose question the next render of the questions page generates
SlotToGenerate == page = "questions" /\ Len(questions) = q_idx

\* the conflict check's result o pre-empts the ordinary question
Preempts(o, prev_qs) ==
    /\ o.kind = "json"
    /\ o.has_conflict
    /\ normalize(o.question) # None
    /\ ~AnySimilar(normalize(o.question), prev_qs)

\* C24: the conflict question pre-empts the ordinary question exactly when
\* the check reports has_conflict with a non-empty question that is similar
\* to no previous question: then it is the slot's question and no generation
\* call is made; in every other case the ordinary generation path runs.
C24_ConflictQuestionPreempts ==
    SlotToGenerate =>
        \A o \in CrossOutcomes :
            \A r \in generate_question(q_idx, num_questions, coach_id, questions, answers,
                                       crosscheck_used_for, QuestionOutcomes, {o}) :
                IF r.cc = 1 /\ Preempts(o, questions)
                THEN r.q = normalize(o.question) /\ r.gen = 0
                ELSE r.gen >= 1

\* a slot holds the conflict question and no generation call was made for it
C24_Witness ==
    \E s \in Slots :
        /\ Len(questions) > s
        /\ questions[s + 1] = normalize(CrossQ1)
        /\ crosscheck_calls[s] = 1
        /\ generation_calls[s] = 0

\* the texts in S that collide with a previous question
Colliding(S, prev_qs) == {q \in S \ {None} : AnySimilar(normalize(q), prev_qs)}

\* C25: ordinary question generation is bounded and never fails: at most two
\* generation calls, the second only when the first text collides with a
\* previous question; the fallback question of (persona, slot, N) when the
\* first call fails or the retry fails or still collides; and always a
\* non-empty question.
C25_GenerationBoundedWithFallback ==
    /\ \A s \in Slots : generation_calls[s] <= 2
    /\ \A k \in 1..Len(questions) : questions[k] # None
    /\ SlotToGenerate =>
        LET fb == fallback_question(coach_id, q_idx, num_questions)
            gq(S) == generate_question(q_idx, num_questions, coach_id, questions, answers,
                                       crosscheck_used_for, S, {[kind |-> "fail"]})
        IN  /\ \A q \in QuestionOutcomes :
                gq({q}) = {[q |-> IF q = None \/ q \in Colliding({q}, questions)
                                  THEN fb ELSE normalize(q),
                            used |-> crosscheck_used_for,
                            cc |-> IF main_answer_count(answers) >= 2
                                      /\ q_idx \notin crosscheck_used_for THEN 1 ELSE 0,
                            gen |-> IF q \in Colliding({q}, questions) THEN 2 ELSE 1]}
            /\ \A S \in SUBSET QuestionOutcomes :
                \A r \in gq(S) :
                    /\ r.gen \in {1, 2}
                    /\ r.gen = 2 => Colliding(S, questions) # {}
                    /\ r.q # None
                    /\ \/ r.q = fb
                       \/ \E q \in (S \ {None}) \ Colliding(S, questions) : r.q = normalize(q)

\* a slot's question is the fallback question after two generation calls
C25_Witness ==
    \E s \in Slots :
        /\ Len(questions) > s
        /\ generation_calls[s] = 2
        /\ questions[s + 1] = fallback_question(coach_id, s, num_questions)


\* the closing purpose of a persona
closing_purpose(coach) ==
    CASE coach = "action" -> "action_smallest_action_in_5_minutes"
      [] coach = "logic" -> "logic_rank_criteria_1_to_3"
      [] coach = "value" -> "value_own_standard_in_one_sentence"

\* C26: for every persona and every N in 2..10 the final slot has the
\* persona's closing purpose in the generation instruction and in the
\* fallback question bank, and the two tables select the same purpose for
\* every persona, slot and N.
C26_ClosingQuestionOnFinalSlot ==
    text_result.op = "purpose" =>
        /\ text_result.i = text_result.n - 1 =>
            /\ text_result.instruction = closing_purpose(text_result.coach)
            /\ fallback_purpose(text_result.fallback) = closing_purpose(text_result.coach)
        /\ fallback_purpose(text_result.fallback) = text_result.instruction


\* C27: in the questions phase 0 <= q_index <= N-1, no record has a
\* main_index above q_index, and the questions list has at most N entries
\* and an entry for every main_index in the answers.
C27_SlotsWithinRange ==
    page = "questions" =>
        /\ 0 <= q_index
        /\ q_index <= num_questions - 1
        /\ \A k \in 1..Len(answers) : answers[k].main_index <= q_index
        /\ Len(questions) <= num_questions
        /\ \A k \in 1..Len(answers) : answers[k].main_index < Len(questions)

C29_AnswersOrderedBySlot ==
    /\ \A k \in 1..(Len(answers) - 1) : answers[k].main_index <= answers[k + 1].main_index
    /\ \A k \in 1..Len(answers) :
        answers[k].kind = "probe" =>
            /\ k > 1
            /\ answers[k - 1].kind = "main"
            /\ answers[k - 1].main_index = answers[k].main_index


\* after go back to an earlier slot, the questions list is ahead of q_index
\* and the last record belongs to the slot shown
C27_Witness ==
    /\ page = "questions"
    /\ Len(questions) > q_index + 1
    /\ answers # <<>>
    /\ LastAnswer.main_index = q_index
    /\ q_index >= 1

C29_Witness ==
    /\ \E s \in Slots : Cardinality(MainRecords(s)) = 2
    /\ \E k \in 2..(Len(answers) - 1) : answers[k].kind = "probe"


-----------------------------------------------------------------------------
(* The interview answered forward: acceptable answers only, no go back *)

\* answers that are non-empty and neither too short nor confused
AcceptableAnswers ==
    {a \in AnswerInputs : strip(a) # None /\ ~PoorAnswer(strip(a))}

\* A fresh session answered slot by slot with acceptable answers, with every
\* result of the collaborator on the question path.  The user keeps going
\* (a button that stays available is pressed) and a script run that is due
\* happens, at the least the one in which the collaborator returns nothing.
NextForward ==
    \/ NextStep
    \/ StartCoaching
    \/ RenderQuestions(QuestionOutcomes, CrossOutcomes)
    \/ \E ans \in AcceptableAnswers : SubmitAnswer(ans, ProbeOutcomes)

SpecForward ==
    /\ Init
    /\ [][NextForward]_vars
    /\ WF_vars(NextStep)
    /\ WF_vars(StartCoaching)
    /\ WF_vars(RenderQuestions({None}, {[kind |-> "fail"]}))
    /\ WF_vars(\E ans \in AcceptableAnswers : SubmitAnswer(ans, ProbeOutcomes))

\* the answers are exactly one main record for each of the slots 0..n-1
OneMainPerSlotUpTo(n) ==
    /\ Len(answers) = n
    /\ \A k \in 1..n : answers[k].kind = "main" /\ answers[k].main_index = k - 1

\* C30: progress under acceptable answers.  From a fresh interview with N
\* slots, when every submitted answer is non-empty, not too short and not
\* confused and go back is never used: every submission saves exactly one
\* record, after fewer than N submissions the session is on the questions
\* page at the slot of that number with one main record per answered slot,
\* after N submissions it is on the report page with exactly one main record
\* per slot 0..N-1 and no probe record, and the report page is reached
\* whatever the collaborator returns for the questions.
C30_AcceptableAnswersReachReport ==
    /\ [](page = "questions" =>
            /\ Len(answers) < num_questions
            /\ q_index = Len(answers)
            /\ ~probe_active
            /\ OneMainPerSlotUpTo(Len(answers)))
    /\ [](page = "report" => OneMainPerSlotUpTo(num_questions))
    /\ [][answers' # answers => Len(answers') = Len(answers) + 1]_vars
    /\ <>(page = "report")

\* the report page after MaxN acceptable answers, with a slot whose question
\* is the fallback question after a failed generation call
C30_Witness ==
    /\ page = "report"
    /\ num_questions = MaxN
    /\ Len(answers) = MaxN
    /\ \E s \in 0..(MaxN - 1) :
        /\ generation_calls[s] >= 1
        /\ questions[s + 1] = fallback_question(coach_id, s, num_questions)

=============================================================================
